---- MODULE Spec2Model ----
(***************************************************************************)
(* Schema-driven field engine of parse-dynamic-form: the dependency        *)
(* evaluator (lib/field-dependencies), the validation schema compiler      *)
(* (lib/schema-parser.ts) and the form session that composes them          *)
(* (components/forms/UniversalFormRenderer.tsx).                           *)
(***************************************************************************)
EXTENDS Integers, Sequences, FiniteSets, TLC

(***************************************************************************)
(* JavaScript values.  Every value is a record whose tag t is its kind;    *)
(* strings carry their characters as a sequence so that `includes` and     *)
(* `length` are computed, objects carry a function from own keys to        *)
(* values, arrays a sequence of values.                                    *)
(***************************************************************************)
Undef == [t |-> "undefined"]
Null == [t |-> "null"]
Bool(b) == [t |-> "boolean", v |-> b]
Num(n) == [t |-> "number", v |-> n]
NaN == [t |-> "NaN"]
DateValue == [t |-> "Date"]
Str(cs) == [t |-> "string", v |-> cs]
Arr(xs) == [t |-> "array", v |-> xs]
Obj(f) == [t |-> "object", v |-> f]

EmptyStr == Str(<<>>)
EmptyArr == Arr(<<>>)
EmptyObj == Obj(<<>>)

\* typeof x
TypeOf(x) ==
  CASE x.t \in {"null", "array", "object", "Date"} -> "object"
    [] x.t = "NaN" -> "number"
    [] OTHER -> x.t

\* Array.isArray(x)
IsArray(x) == x.t = "array"

\* x === y.  Arrays and objects compare by reference; a value held by the
\* form and a literal of the schema are never the same reference.  NaN is
\* equal to nothing.
StrictEquals(x, y) ==
  /\ x.t = y.t
  /\ \/ x.t \in {"undefined", "null"}
     \/ /\ x.t \in {"boolean", "number", "string"}
        /\ x.v = y.v

\* the truthiness test of `x ? a : b`, `!x`, `if (x)`
Truthy(x) ==
  CASE x.t \in {"undefined", "null"} -> FALSE
    [] x.t = "boolean" -> x.v
    [] x.t = "number" -> x.v # 0
    [] x.t = "NaN" -> FALSE
    [] x.t = "string" -> Len(x.v) > 0
    [] OTHER -> TRUE

\* xs.includes(y) on an array (SameValueZero: NaN is found)
ArrayIncludes(xs, y) ==
  \E i \in 1..Len(xs.v) :
    StrictEquals(xs.v[i], y) \/ (xs.v[i].t = "NaN" /\ y.t = "NaN")

\* x > y and x < y on numbers; a comparison with NaN is false
GreaterThan(x, y) == x.t = "number" /\ y.t = "number" /\ x.v > y.v
LessThan(x, y) == x.t = "number" /\ y.t = "number" /\ x.v < y.v

\* s.includes(sub) on strings
StringIncludes(s, sub) ==
  \E i \in 0..(Len(s.v) - Len(sub.v)) :
    SubSeq(s.v, i + 1, i + Len(sub.v)) = sub.v

\* obj with obj[key] = val
ObjSet(f, key, val) ==
  [k \in (DOMAIN f) \cup {key} |-> IF k = key THEN val ELSE f[k]]

(***************************************************************************)
(* lib/field-dependencies: checkCondition                                  *)
(***************************************************************************)
IsEmptyValue(fieldValue) ==
  \/ fieldValue.t = "undefined"
  \/ fieldValue.t = "null"
  \/ StrictEquals(fieldValue, EmptyStr)
  \/ (IsArray(fieldValue) /\ Len(fieldValue.v) = 0)

\* variant: an unrecognized condition kind is not satisfied
DefaultConditionResult_false == FALSE

\* default: return true
DefaultConditionResult == TRUE

\* variant: notIn is false for a dependency value that is not an array
checkCondition_notInStrict(dependency, fieldValue) ==
  LET condition == dependency.condition
      value == dependency.value
  IN CASE condition = "equals" -> StrictEquals(fieldValue, value)
       [] condition = "notEquals" -> ~StrictEquals(fieldValue, value)
       [] condition = "contains" ->
            IF IsArray(fieldValue) THEN ArrayIncludes(fieldValue, value)
            ELSE IF TypeOf(fieldValue) = "string" /\ TypeOf(value) = "string"
                 THEN StringIncludes(fieldValue, value)
                 ELSE FALSE
       [] condition = "greaterThan" ->
            /\ TypeOf(fieldValue) = "number"
            /\ TypeOf(value) = "number"
            /\ GreaterThan(fieldValue, value)
       [] condition = "lessThan" ->
            /\ TypeOf(fieldValue) = "number"
            /\ TypeOf(value) = "number"
            /\ LessThan(fieldValue, value)
       [] condition = "in" ->
            IF IsArray(value) THEN ArrayIncludes(value, fieldValue) ELSE FALSE
       [] condition = "notIn" ->
            IF IsArray(value) THEN ~ArrayIncludes(value, fieldValue) ELSE FALSE
       [] condition = "isEmpty" -> IsEmptyValue(fieldValue)
       [] condition = "isNotEmpty" -> ~IsEmptyValue(fieldValue)
       [] OTHER -> DefaultConditionResult

checkCondition(dependency, fieldValue) ==
  LET condition == dependency.condition
      value == dependency.value
  IN CASE condition = "equals" -> StrictEquals(fieldValue, value)
       [] condition = "notEquals" -> ~StrictEquals(fieldValue, value)
       [] condition = "contains" ->
            IF IsArray(fieldValue) THEN ArrayIncludes(fieldValue, value)
            ELSE IF TypeOf(fieldValue) = "string" /\ TypeOf(value) = "string"
                 THEN StringIncludes(fieldValue, value)
                 ELSE FALSE
       [] condition = "greaterThan" ->
            /\ TypeOf(fieldValue) = "number"
            /\ TypeOf(value) = "number"
            /\ GreaterThan(fieldValue, value)
       [] condition = "lessThan" ->
            /\ TypeOf(fieldValue) = "number"
            /\ TypeOf(value) = "number"
            /\ LessThan(fieldValue, value)
       [] condition = "in" ->
            IF IsArray(value) THEN ArrayIncludes(value, fieldValue) ELSE FALSE
       [] condition = "notIn" ->
            IF IsArray(value) THEN ~ArrayIncludes(value, fieldValue) ELSE TRUE
       [] condition = "isEmpty" -> IsEmptyValue(fieldValue)
       [] condition = "isNotEmpty" -> ~IsEmptyValue(fieldValue)
       [] OTHER -> DefaultConditionResult

(***************************************************************************)
(* lib/field-dependencies: getNestedValue                                  *)
(***************************************************************************)
\* path.split('.') for the paths the schemas below use
Split(path) ==
  CASE path = "A" -> <<"A">>
    [] path = "B" -> <<"B">>
    [] path = "T" -> <<"T">>
    [] path = "g" -> <<"g">>
    [] path = "g.x" -> <<"g", "x">>
    [] path = "g.x.y" -> <<"g", "x", "y">>
    [] path = "g.z" -> <<"g", "z">>
    [] path = "ghost" -> <<"ghost">>
    [] path = "ghost.y" -> <<"ghost", "y">>
    [] path = "n.y" -> <<"n", "y">>
    [] path = "A.y" -> <<"A", "y">>
    [] path = "arr.c" -> <<"arr", "c">>
    [] path = "arr.0.c" -> <<"arr", "0", "c">>
    [] path = "arr.1.c" -> <<"arr", "1", "c">>
    [] path = "arr.length" -> <<"arr", "length">>
    [] path = "" -> <<"">>

\* the array index a property key denotes, 0 when it denotes none
IndexOfKey(key) ==
  CASE key = "0" -> 1
    [] key = "1" -> 2
    [] key = "2" -> 3
    [] OTHER -> 0

\* the outcome of an evaluation that throws
Thrown == [t |-> "TypeError"]
\* new RegExp(source) throws: the message quotes the source
ThrownSyntaxError(source) ==
  [t |-> "SyntaxError",
   message |-> <<"Invalid regular expression: /">> \o source.v \o <<"/">>]
IsThrown(x) == "t" \in DOMAIN x /\ x.t \in {"TypeError", "SyntaxError"}

\* current[key]: reading a property of undefined or null throws; an object
\* yields its own property, an array an element or its length, a primitive
\* has none of the keys used here.
GetProp(current, key) ==
  CASE current.t \in {"undefined", "null"} -> Thrown
    [] current.t = "object" ->
         IF key \in DOMAIN current.v THEN current.v[key] ELSE Undef
    [] current.t = "array" ->
         IF key = "length" THEN Num(Len(current.v))
         ELSE IF IndexOfKey(key) \in 1..Len(current.v)
              THEN current.v[IndexOfKey(key)]
              ELSE Undef
    [] current.t = "string" ->
         IF key = "length" THEN Num(Len(current.v)) ELSE Undef
    [] current.t = "TypeError" -> Thrown
    [] OTHER -> Undef

RECURSIVE WalkKeys(_, _, _)

\* variant: the null/undefined guard checks undefined only
WalkKeys_noNullGuard(current, keys, i) ==
  IF i > Len(keys) THEN current
  ELSE IF IsThrown(current) THEN Thrown
  ELSE IF current.t = "undefined" THEN Undef
  ELSE IF TypeOf(current) # "object" THEN Undef
  ELSE WalkKeys(GetProp(current, keys[i]), keys, i + 1)

WalkKeys(current, keys, i) ==
  IF i > Len(keys) THEN current
  ELSE IF IsThrown(current) THEN Thrown
  ELSE IF current.t = "null" \/ current.t = "undefined" THEN Undef
  ELSE IF TypeOf(current) # "object" THEN Undef
  ELSE WalkKeys(GetProp(current, keys[i]), keys, i + 1)

getNestedValue(obj, path) == WalkKeys(obj, Split(path), 1)

(***************************************************************************)
(* types/dynamic-form.ts: FormFieldSchema.  An optional attribute that is  *)
(* absent is Undef; absent dependencies, children and options are the      *)
(* empty sequence (the code treats both alike).                            *)
(***************************************************************************)
NoValidation ==
  [required |-> Undef, min |-> Undef, max |-> Undef, minLength |-> Undef,
   maxLength |-> Undef, pattern |-> Undef, email |-> Undef, url |-> Undef,
   custom |-> Undef]

BaseField ==
  [name |-> "", type |-> "text", hidden |-> Undef, disabled |-> Undef,
   validation |-> NoValidation, dependencies |-> <<>>, children |-> <<>>,
   options |-> <<>>, defaultValue |-> Undef, minItems |-> Undef,
   maxItems |-> Undef]

Field(name, type) == [BaseField EXCEPT !.name = name, !.type = type]

\* FieldOption
Option(value) == [label |-> value, value |-> value]

Dependency(field, condition, value, action) ==
  [field |-> field, condition |-> condition, value |-> value, action |-> action]

Conditions ==
  {"equals", "notEquals", "contains", "greaterThan", "lessThan", "in",
   "notIn", "isEmpty", "isNotEmpty"}

Actions == {"show", "hide", "enable", "disable", "require", "optional"}

(***************************************************************************)
(* lib/field-dependencies: computeFieldState                               *)
(***************************************************************************)
\* x ?? false
OrFalse(x) == IF x.t \in {"undefined", "null"} THEN FALSE ELSE x.v

\* the static seed of a field's state
SeedState(field) ==
  [visible |-> ~Truthy(field.hidden),
   disabled |-> OrFalse(field.disabled),
   required |-> IF Truthy(field.validation.required) THEN TRUE ELSE FALSE]

\* variant: require/optional get an inverse like the other actions
ApplyDependency_symmetric(state, dependency, formValues) ==
  LET dependentValue == getNestedValue(formValues, dependency.field)
      conditionMet == checkCondition(dependency, dependentValue)
      action == dependency.action
  IN IF IsThrown(dependentValue) THEN Thrown
     ELSE CASE action = "show" -> [state EXCEPT !.visible = conditionMet]
            [] action = "hide" -> [state EXCEPT !.visible = ~conditionMet]
            [] action = "enable" -> [state EXCEPT !.disabled = ~conditionMet]
            [] action = "disable" -> [state EXCEPT !.disabled = conditionMet]
            [] action = "require" -> [state EXCEPT !.required = conditionMet]
            [] action = "optional" -> [state EXCEPT !.required = ~conditionMet]
            [] OTHER -> state

\* variant: no action has an inverse
ApplyDependency_noInverse(state, dependency, formValues) ==
  LET dependentValue == getNestedValue(formValues, dependency.field)
      conditionMet == checkCondition(dependency, dependentValue)
      action == dependency.action
  IN IF IsThrown(dependentValue) THEN Thrown
     ELSE IF conditionMet
     THEN CASE action = "show" -> [state EXCEPT !.visible = TRUE]
            [] action = "hide" -> [state EXCEPT !.visible = FALSE]
            [] action = "enable" -> [state EXCEPT !.disabled = FALSE]
            [] action = "disable" -> [state EXCEPT !.disabled = TRUE]
            [] action = "require" -> [state EXCEPT !.required = TRUE]
            [] action = "optional" -> [state EXCEPT !.required = FALSE]
            [] OTHER -> state
     ELSE state

\* the body of the loop over field.dependencies
ApplyDependency(state, dependency, formValues) ==
  LET dependentValue == getNestedValue(formValues, dependency.field)
      conditionMet == checkCondition(dependency, dependentValue)
      action == dependency.action
  IN IF IsThrown(dependentValue) THEN Thrown
     ELSE IF conditionMet
     THEN CASE action = "show" -> [state EXCEPT !.visible = TRUE]
            [] action = "hide" -> [state EXCEPT !.visible = FALSE]
            [] action = "enable" -> [state EXCEPT !.disabled = FALSE]
            [] action = "disable" -> [state EXCEPT !.disabled = TRUE]
            [] action = "require" -> [state EXCEPT !.required = TRUE]
            [] action = "optional" -> [state EXCEPT !.required = FALSE]
            [] OTHER -> state
     ELSE CASE action = "show" -> [state EXCEPT !.visible = FALSE]
            [] action = "hide" -> [state EXCEPT !.visible = TRUE]
            [] action = "enable" -> [state EXCEPT !.disabled = TRUE]
            [] action = "disable" -> [state EXCEPT !.disabled = FALSE]
            [] OTHER -> state

RECURSIVE ApplyDependencies(_, _, _, _)

\* variant: the loop stops after the first dependency
ApplyDependencies_firstOnly(state, dependencies, i, formValues) ==
  IF i > Len(dependencies) \/ i > 1 \/ IsThrown(state) THEN state
  ELSE ApplyDependencies(ApplyDependency(state, dependencies[i], formValues),
                         dependencies, i + 1, formValues)

ApplyDependencies(state, dependencies, i, formValues) ==
  IF i > Len(dependencies) \/ IsThrown(state) THEN state
  ELSE ApplyDependencies(ApplyDependency(state, dependencies[i], formValues),
                         dependencies, i + 1, formValues)

computeFieldState(field, formValues) ==
  IF Len(field.dependencies) = 0 THEN SeedState(field)
  ELSE ApplyDependencies(SeedState(field), field.dependencies, 1, formValues)

(***************************************************************************)
(* lib/field-dependencies: useFieldDependencies                            *)
(***************************************************************************)
\* prefix ? `${prefix}.${name}` : name
JoinPath(prefix, name) == IF prefix = "" THEN name ELSE prefix \o "." \o name

\* processFields(fieldList, prefix), writing into states
RECURSIVE processFields(_, _, _, _, _)
processFields(states, fieldList, i, prefix, formValues) ==
  IF i > Len(fieldList) THEN states
  ELSE LET field == fieldList[i]
           fieldPath == JoinPath(prefix, field.name)
           state == computeFieldState(field, formValues)
           own == ObjSet(states, fieldPath, state)
           deep == processFields(own, field.children, 1, fieldPath, formValues)
       IN IF IsThrown(state) THEN Thrown
          ELSE IF IsThrown(deep) THEN Thrown
          ELSE processFields(deep, fieldList, i + 1, prefix, formValues)

\* the fieldStates memo of useFieldDependencies(fields, formValues)
ComputeFieldStates(fieldList, formValues) ==
  processFields(<<>>, fieldList, 1, "", formValues)

DefaultFieldState == [visible |-> TRUE, disabled |-> FALSE, required |-> FALSE]

\* fieldStates[fieldName]
LookupState(states, fieldName) ==
  IF fieldName \in DOMAIN states THEN states[fieldName] ELSE Undef

IsNullish(x) == "t" \in DOMAIN x /\ x.t \in {"undefined", "null"}

\* variant: no fallback for a path without a state
getFieldState_noDefault(states, fieldName) == LookupState(states, fieldName)

\* getFieldState(fieldName): fieldStates[fieldName] ?? the default state
getFieldState(states, fieldName) ==
  IF IsNullish(LookupState(states, fieldName)) THEN DefaultFieldState
  ELSE LookupState(states, fieldName)

(***************************************************************************)
(* lib/schema-parser.ts: default values                                    *)
(***************************************************************************)
RECURSIVE getFieldDefaultValue(_)
RECURSIVE GroupDefaults(_, _, _)

\* the forEach over field.children that fills groupDefaults
GroupDefaults(groupDefaults, children, i) ==
  IF i > Len(children) THEN groupDefaults
  ELSE GroupDefaults(ObjSet(groupDefaults, children[i].name,
                            getFieldDefaultValue(children[i])),
                     children, i + 1)

\* variant: a declared default is used only when it is truthy
getFieldDefaultValue_truthy(field) ==
  IF Truthy(field.defaultValue) THEN field.defaultValue
  ELSE CASE field.type = "number" -> Undef
         [] field.type = "checkbox" ->
              IF Len(field.options) > 1 THEN EmptyArr ELSE Bool(FALSE)
         [] field.type = "switch" -> Bool(FALSE)
         [] field.type = "group" -> Obj(GroupDefaults(<<>>, field.children, 1))
         [] field.type = "array" -> EmptyArr
         [] OTHER -> EmptyStr

getFieldDefaultValue(field) ==
  IF field.defaultValue.t # "undefined" THEN field.defaultValue
  ELSE CASE field.type = "number" -> Undef
         [] field.type = "checkbox" ->
              IF Len(field.options) > 1 THEN EmptyArr ELSE Bool(FALSE)
         [] field.type = "switch" -> Bool(FALSE)
         [] field.type = "group" -> Obj(GroupDefaults(<<>>, field.children, 1))
         [] field.type = "array" -> EmptyArr
         [] OTHER -> EmptyStr

(***************************************************************************)
(* The zod validators lib/schema-parser.ts builds.  A validator is a       *)
(* record naming its kind and its checks; safeParse yields the set of      *)
(* issues, each with the path, zod's issue code and the message.           *)
(***************************************************************************)
Check(kind, value, message) == [kind |-> kind, value |-> value, message |-> message]
NoCheck == [kind |-> "none"]

ZString(checks) == [kind |-> "string", checks |-> checks]
ZNumber(invalidTypeError, checks) ==
  [kind |-> "number", invalid_type_error |-> invalidTypeError, checks |-> checks]
ZBoolean == [kind |-> "boolean"]
ZDate == [kind |-> "date"]
ZAny == [kind |-> "any"]
ZArray(element, minCheck, maxCheck) ==
  [kind |-> "array", element |-> element, min |-> minCheck, max |-> maxCheck]
ZObject(shape) == [kind |-> "object", shape |-> shape]
ZUnion(options) == [kind |-> "union", options |-> options]
ZOptional(inner) == [kind |-> "optional", inner |-> inner]

\* a message text of the source with its interpolated number; the texts are
\* named: "required" is the parser's must-fill text, "email" and "url" its
\* format texts, "pattern" its bad-format text, "minLength", "maxLength",
\* "min", "max", "minItems", "maxItems" its bound texts, "number" its
\* not-a-number text; "zod:..." are zod's own default texts
Message(name, n) == Str(<<name, ToString(n)>>)

Issue(path, code, message) == [path |-> path, code |-> code, message |-> message]

\* zod's e-mail pattern over the letters a, @ and .: a local part that
\* neither starts nor ends with a dot nor holds two in a row, then labels
\* joined by dots, the last one of two letters or more
IsEmail(cs) ==
  \E i \in 2..(Len(cs) - 1) :
    /\ cs[i] = "@"
    /\ \A j \in 1..Len(cs) : (cs[j] = "@") => (j = i)
    /\ cs[1] # "." /\ cs[i - 1] # "."
    /\ \A j \in 1..(i - 2) : ~(cs[j] = "." /\ cs[j + 1] = ".")
    /\ cs[i + 1] # "."
    /\ \A j \in (i + 1)..(Len(cs) - 1) : ~(cs[j] = "." /\ cs[j + 1] = ".")
    /\ \E j \in (i + 2)..(Len(cs) - 2) :
         /\ cs[j] = "."
         /\ \A k \in (j + 1)..Len(cs) : cs[k] # "."

\* new URL(s) succeeds: a scheme of letters, then a colon
IsUrl(cs) ==
  \E i \in 2..Len(cs) :
    /\ cs[i] = ":"
    /\ \A j \in 1..(i - 1) : cs[j] \notin {":", "@", "."}

\* the pattern sources the schemas use: ^a+$, and the malformed [
PatternAs == Str(<<"^", "a", "+", "$">>)
PatternMalformed == Str(<<"[">>)

\* new RegExp(source) succeeds
RegExpValid(source) == source # PatternMalformed

\* new RegExp(source).test(cs)
RegExpTest(source, cs) ==
  IF source = PatternAs THEN Len(cs) >= 1 /\ \A i \in 1..Len(cs) : cs[i] = "a"
  ELSE TRUE

\* whether the string passes the check
StringCheckOk(check, cs) ==
  CASE check.kind = "email" -> IsEmail(cs)
    [] check.kind = "url" -> IsUrl(cs)
    [] check.kind = "min" -> Len(cs) >= check.value
    [] check.kind = "max" -> Len(cs) <= check.value
    [] check.kind = "regex" -> RegExpTest(check.value, cs)

StringCheckCode(check) ==
  CASE check.kind = "min" -> "too_small"
    [] check.kind = "max" -> "too_big"
    [] OTHER -> "invalid_string"

NumberCheckOk(check, n) ==
  CASE check.kind = "min" -> n >= check.value
    [] check.kind = "max" -> n <= check.value

NumberCheckCode(check) == IF check.kind = "min" THEN "too_small" ELSE "too_big"

\* the message of a check, zod's own when the caller gave none
CheckMessage(check, code) ==
  IF check.message.t = "undefined" THEN Message("zod:" \o code, 0)
  ELSE check.message

\* the invalid_type issue zod raises for a value of the wrong type
InvalidType(path, x, invalidTypeError) ==
  Issue(path, "invalid_type",
        IF x.t = "undefined" THEN Message("zod:Required", 0)
        ELSE IF invalidTypeError.t = "undefined" THEN Message("zod:invalid_type", 0)
        ELSE invalidTypeError)

\* the key of an array index
IndexKey(i) == ToString(i - 1)

RECURSIVE SafeParse(_, _, _)
SafeParse(z, x, path) ==
  CASE z.kind = "optional" ->
         IF x.t = "undefined" THEN {} ELSE SafeParse(z.inner, x, path)
    [] z.kind = "any" -> {}
    [] z.kind = "string" ->
         IF x.t # "string" THEN {InvalidType(path, x, Undef)}
         ELSE {Issue(path, StringCheckCode(z.checks[i]),
                     CheckMessage(z.checks[i], StringCheckCode(z.checks[i]))) :
                 i \in {j \in 1..Len(z.checks) : ~StringCheckOk(z.checks[j], x.v)}}
    [] z.kind = "number" ->
         IF x.t # "number" THEN {InvalidType(path, x, z.invalid_type_error)}
         ELSE {Issue(path, NumberCheckCode(z.checks[i]),
                     CheckMessage(z.checks[i], NumberCheckCode(z.checks[i]))) :
                 i \in {j \in 1..Len(z.checks) : ~NumberCheckOk(z.checks[j], x.v)}}
    [] z.kind = "boolean" ->
         IF x.t # "boolean" THEN {InvalidType(path, x, Undef)} ELSE {}
    [] z.kind = "date" ->
         IF x.t # "Date" THEN {InvalidType(path, x, Undef)} ELSE {}
    [] z.kind = "union" ->
         IF \E i \in 1..Len(z.options) : SafeParse(z.options[i], x, path) = {}
         THEN {}
         ELSE {Issue(path, "invalid_union", Message("zod:invalid_union", 0))}
    [] z.kind = "array" ->
         IF x.t # "array" THEN {InvalidType(path, x, Undef)}
         ELSE (IF z.min.kind # "none" /\ Len(x.v) < z.min.value
               THEN {Issue(path, "too_small", z.min.message)} ELSE {})
              \cup (IF z.max.kind # "none" /\ Len(x.v) > z.max.value
                    THEN {Issue(path, "too_big", z.max.message)} ELSE {})
              \cup UNION {SafeParse(z.element, x.v[i], Append(path, IndexKey(i))) :
                            i \in 1..Len(x.v)}
    [] z.kind = "object" ->
         IF x.t # "object" THEN {InvalidType(path, x, Undef)}
         ELSE UNION {SafeParse(z.shape[k],
                               IF k \in DOMAIN x.v THEN x.v[k] ELSE Undef,
                               Append(path, k)) : k \in DOMAIN z.shape}

(***************************************************************************)
(* lib/schema-parser.ts: createStringSchema, createNumberSchema,           *)
(* createFieldZodSchema                                                    *)
(***************************************************************************)
\* const { value, message } = typeof rule === 'number' ? {...} : rule
RuleValue(rule) == IF TypeOf(rule) = "number" THEN rule.v ELSE rule.v.value.v
RuleMessage(rule, name) ==
  IF TypeOf(rule) = "number" THEN Message(name, rule.v)
  ELSE IF "message" \in DOMAIN rule.v THEN rule.v.message ELSE Undef

\* typeof flag === 'string' ? flag : the parser's text
FlagMessage(flag, name) ==
  IF TypeOf(flag) = "string" THEN flag ELSE Message(name, 0)

PatternSource(pattern) ==
  IF TypeOf(pattern) = "string" THEN pattern ELSE pattern.v.value
PatternMessage(pattern) ==
  IF TypeOf(pattern) = "string" THEN Message("pattern", 0)
  ELSE IF "message" \in DOMAIN pattern.v THEN pattern.v.message ELSE Undef

createStringSchema(validation, isEmail) ==
  LET email == IF isEmail \/ Truthy(validation.email)
               THEN <<Check("email", 0, FlagMessage(validation.email, "email"))>>
               ELSE <<>>
      url == IF Truthy(validation.url)
             THEN <<Check("url", 0, FlagMessage(validation.url, "url"))>>
             ELSE <<>>
      required == IF Truthy(validation.required)
                  THEN <<Check("min", 1, FlagMessage(validation.required, "required"))>>
                  ELSE <<>>
      minLength == IF Truthy(validation.minLength)
                   THEN <<Check("min", RuleValue(validation.minLength),
                                RuleMessage(validation.minLength, "minLength"))>>
                   ELSE <<>>
      maxLength == IF Truthy(validation.maxLength)
                   THEN <<Check("max", RuleValue(validation.maxLength),
                                RuleMessage(validation.maxLength, "maxLength"))>>
                   ELSE <<>>
      pattern == IF Truthy(validation.pattern)
                 THEN <<Check("regex", PatternSource(validation.pattern),
                              PatternMessage(validation.pattern))>>
                 ELSE <<>>
  IN IF Truthy(validation.pattern) /\ ~RegExpValid(PatternSource(validation.pattern))
     THEN ThrownSyntaxError(PatternSource(validation.pattern))
     ELSE ZString(email \o url \o required \o minLength \o maxLength \o pattern)

\* variant: a bound is applied only when it is truthy
createNumberSchema_truthyBounds(validation) ==
  LET min == IF Truthy(validation.min)
             THEN <<Check("min", RuleValue(validation.min),
                          RuleMessage(validation.min, "min"))>>
             ELSE <<>>
      max == IF Truthy(validation.max)
             THEN <<Check("max", RuleValue(validation.max),
                          RuleMessage(validation.max, "max"))>>
             ELSE <<>>
  IN ZNumber(Message("number", 0), min \o max)

createNumberSchema(validation) ==
  LET min == IF validation.min.t # "undefined"
             THEN <<Check("min", RuleValue(validation.min),
                          RuleMessage(validation.min, "min"))>>
             ELSE <<>>
      max == IF validation.max.t # "undefined"
             THEN <<Check("max", RuleValue(validation.max),
                          RuleMessage(validation.max, "max"))>>
             ELSE <<>>
  IN ZNumber(Message("number", 0), min \o max)

RECURSIVE createFieldZodSchema(_)
RECURSIVE ChildSchemas(_, _, _)

\* the forEach over field.children that fills childSchemas / itemSchema
ChildSchemas(shape, children, i) ==
  IF i > Len(children) \/ IsThrown(shape) THEN shape
  ELSE LET child == createFieldZodSchema(children[i])
       IN IF IsThrown(child) THEN child
          ELSE ChildSchemas(ObjSet(shape, children[i].name, child), children, i + 1)

\* the switch over field.type
BaseSchema(field) ==
  LET type == field.type
      validation == field.validation
  IN CASE type = "number" -> createNumberSchema(validation)
       [] type = "checkbox" ->
            IF Len(field.options) > 1
            THEN ZArray(ZUnion(<<ZString(<<>>), ZNumber(Undef, <<>>), ZBoolean>>),
                        NoCheck, NoCheck)
            ELSE ZBoolean
       [] type = "switch" -> ZBoolean
       [] type \in {"date", "datetime"} -> ZUnion(<<ZString(<<>>), ZDate>>)
       [] type = "file" -> ZAny
       [] type = "group" ->
            LET shape == ChildSchemas(<<>>, field.children, 1)
            IN IF IsThrown(shape) THEN shape ELSE ZObject(shape)
       [] type = "array" ->
            IF Len(field.children) > 0
            THEN LET shape == ChildSchemas(<<>>, field.children, 1)
                 IN IF IsThrown(shape) THEN shape
                    ELSE ZArray(ZObject(shape),
                                IF field.minItems.t # "undefined"
                                THEN Check("min", field.minItems.v,
                                           Message("minItems", field.minItems.v))
                                ELSE NoCheck,
                                IF field.maxItems.t # "undefined"
                                THEN Check("max", field.maxItems.v,
                                           Message("maxItems", field.maxItems.v))
                                ELSE NoCheck)
            ELSE ZArray(ZAny, NoCheck, NoCheck)
       [] type \in {"select", "radio"} ->
            ZUnion(<<ZString(<<>>), ZNumber(Undef, <<>>)>>)
       [] type = "email" -> createStringSchema(validation, TRUE)
       [] OTHER -> createStringSchema(validation, FALSE)

createFieldZodSchema(field) ==
  LET schema == BaseSchema(field)
  IN IF IsThrown(schema) THEN schema
     ELSE IF ~Truthy(field.validation.required) THEN ZOptional(schema)
     ELSE schema

\* UniversalField.tsx, FieldControl: the registry component rendered for
\* the field
\* variant: one option already gives the checkbox group
FieldControl_groupFromOne(schema) ==
  CASE schema.type = "textarea" -> "Textarea"
    [] schema.type = "select" -> "Select"
    [] schema.type = "radio" -> "RadioGroup"
    [] schema.type = "checkbox" ->
         IF Len(schema.options) < 1 THEN "Checkbox" ELSE "CheckboxGroup"
    [] schema.type = "switch" -> "Switch"
    [] schema.type \in {"date", "datetime"} -> "DatePicker"
    [] OTHER -> "TextInput"

FieldControl(schema) ==
  CASE schema.type = "textarea" -> "Textarea"
    [] schema.type = "select" -> "Select"
    [] schema.type = "radio" -> "RadioGroup"
    [] schema.type = "checkbox" ->
         IF Len(schema.options) <= 1 THEN "Checkbox" ELSE "CheckboxGroup"
    [] schema.type = "switch" -> "Switch"
    [] schema.type \in {"date", "datetime"} -> "DatePicker"
    [] OTHER -> "TextInput"

\* the defaultValues record parseFormSchema builds over schema.fields
RECURSIVE ParseDefaults(_, _, _)
ParseDefaults(defaultValues, fieldList, i) ==
  IF i > Len(fieldList) THEN defaultValues
  ELSE ParseDefaults(ObjSet(defaultValues, fieldList[i].name,
                            getFieldDefaultValue(fieldList[i])),
                     fieldList, i + 1)

parseFormSchemaDefaults(fieldList) == Obj(ParseDefaults(<<>>, fieldList, 1))

\* parseFormSchema(schema): the zod object over the top-level fields and
\* their default values, or the error thrown while building them
parseFormSchema(fieldList) ==
  LET zodSchemaFields == ChildSchemas(<<>>, fieldList, 1)
  IN IF IsThrown(zodSchemaFields) THEN zodSchemaFields
     ELSE [fields |-> fieldList,
           zodSchema |-> ZObject(zodSchemaFields),
           defaultValues |-> parseFormSchemaDefaults(fieldList)]

\* variant: a nested object of the caller is merged into the schema's
mergeDefaultValues_deep(schemaDefaults, userDefaults) ==
  IF ~Truthy(userDefaults) THEN schemaDefaults
  ELSE Obj([k \in (DOMAIN schemaDefaults.v) \cup (DOMAIN userDefaults.v) |->
             IF k \notin DOMAIN userDefaults.v THEN schemaDefaults.v[k]
             ELSE IF k \notin DOMAIN schemaDefaults.v THEN userDefaults.v[k]
             ELSE IF userDefaults.v[k].t = "object" /\ schemaDefaults.v[k].t = "object"
             THEN Obj([j \in (DOMAIN schemaDefaults.v[k].v)
                              \cup (DOMAIN userDefaults.v[k].v) |->
                        IF j \in DOMAIN userDefaults.v[k].v
                        THEN userDefaults.v[k].v[j]
                        ELSE schemaDefaults.v[k].v[j]])
             ELSE userDefaults.v[k]])

\* { ...schemaDefaults, ...userDefaults }
mergeDefaultValues(schemaDefaults, userDefaults) ==
  IF ~Truthy(userDefaults) THEN schemaDefaults
  ELSE Obj([k \in (DOMAIN schemaDefaults.v) \cup (DOMAIN userDefaults.v) |->
             IF k \in DOMAIN userDefaults.v THEN userDefaults.v[k]
             ELSE schemaDefaults.v[k]])

(***************************************************************************)
(* The form session: UniversalFormRendererInner over one schema.           *)
(***************************************************************************)
VARIABLES
  fields,       \* parseFormSchema(schema).fields
  formValues,   \* watch(): the current values snapshot
  fieldStates,  \* the fieldStates memo of useFieldDependencies
  lastEvent     \* the event the session handled last

\* one evaluation of a single dependency
VARIABLES
  cDependency,  \* the dependency
  cFieldValue,  \* the value of the field it names
  cSeed,        \* whether the dependent field is statically hidden, disabled and required
  cResult       \* the outcome of checkCondition and computeFieldState

\* one compilation of a schema and the validation of its values
VARIABLES
  vFields,      \* schema.fields
  vParsed,      \* parseFormSchema(schema)
  vValues,      \* the values handed to the resolver
  vIssues,      \* the issues of zodSchema.safeParse(values)
  vPhase        \* "schema", "parsed" or "validated"

\* one call of mergeDefaultValues
VARIABLES
  mSchemaDefaults,  \* parseFormSchema(schema).defaultValues
  mUserDefaults,    \* the defaultValues prop of the caller
  mMerged,          \* the value mergeDefaultValues returned
  mPhase            \* "inputs" or "merged"

\* one array field of a form session: UniversalArrayField / ArrayField
VARIABLES
  aField,         \* the array field of the schema
  aUserDefaults,  \* the defaultValues prop of the caller
  aValues,        \* the form values; aValues.v[aField.name] holds the items
  aFieldState,    \* the fieldState prop: the computed state of the field
  aReadonly,      \* the readonly prop
  aEvent          \* the event the session handled last

\* one useFieldOptions hook instance
VARIABLES
  oParams,     \* staticOptions, optionsKey, dependsOn, optionsUrl
  oListMap,    \* the listMap item of sessionStorage, parsed
  oValues,     \* the form values useWatch reads
  oOptions,    \* useState: options
  oIsLoading,  \* useState: isLoading
  oError,      \* useState: error
  oRequests,   \* the loadFromApi calls suspended at await fetch(url)
  oIssued,     \* how many fetches the hook has issued
  oNotify,     \* a storage event is queued for this window
  oLast        \* what the last step did

\* one useDynamicForm hook instance
VARIABLES
  sConfig,        \* submitUrl and the two callbacks
  sIsSubmitting,  \* useState: isSubmitting
  sSubmitError,   \* useState: submitError
  sCalls,         \* the submitForm calls suspended at await api.post
  sStarted,       \* how many submitForm calls were made
  sLast           \* what the last step did and what the caller observed

\* one rendered form: UniversalFormRendererInner with its props
VARIABLES
  rFields,        \* schema.fields
  rValidators,    \* the validators prop: the registered validator names
  rUserDefaults,  \* the defaultValues prop: the object and its identity
  rValues,        \* the form values
  rErrors,        \* the issues of the last handleSubmit validation
  rRenders,       \* how many times the parent re-rendered with new props
  rEvent          \* what the last step did

depVars == <<fields, formValues, fieldStates, lastEvent>>
condVars == <<cDependency, cFieldValue, cSeed, cResult>>
valVars == <<vFields, vParsed, vValues, vIssues, vPhase>>
mrgVars == <<mSchemaDefaults, mUserDefaults, mMerged, mPhase>>
arrVars == <<aField, aUserDefaults, aValues, aFieldState, aReadonly, aEvent>>
optVars ==
  <<oParams, oListMap, oValues, oOptions, oIsLoading, oError, oRequests,
    oIssued, oNotify, oLast>>
subVars == <<sConfig, sIsSubmitting, sSubmitError, sCalls, sStarted, sLast>>
frmVars ==
  <<rFields, rValidators, rUserDefaults, rValues, rErrors, rRenders, rEvent>>
restVars == <<mrgVars, arrVars, optVars, subVars, frmVars>>
vars == <<depVars, condVars, valVars, restVars>>

NoResult == [done |-> FALSE, met |-> FALSE, state |-> [visible |-> TRUE, disabled |-> FALSE, required |-> FALSE]]
NotParsed == [fields |-> <<>>, zodSchema |-> ZAny, defaultValues |-> EmptyObj]

\* the variables of a part that takes no step in a specification
IdleDep ==
  /\ fields = <<>>
  /\ formValues = EmptyObj
  /\ fieldStates = <<>>
  /\ lastEvent = "idle"

IdleCond ==
  /\ cDependency = Dependency("A", "equals", Undef, "show")
  /\ cFieldValue = Undef
  /\ cSeed = FALSE
  /\ cResult = NoResult

IdleVal ==
  /\ vFields = <<>>
  /\ vParsed = NotParsed
  /\ vValues = EmptyObj
  /\ vIssues = {}
  /\ vPhase = "idle"

IdleMrg ==
  /\ mSchemaDefaults = EmptyObj
  /\ mUserDefaults = Undef
  /\ mMerged = Undef
  /\ mPhase = "idle"

IdleArr ==
  /\ aField = BaseField
  /\ aUserDefaults = Undef
  /\ aValues = EmptyObj
  /\ aFieldState = DefaultFieldState
  /\ aReadonly = FALSE
  /\ aEvent = "idle"

NoParams ==
  [staticOptions |-> <<>>, optionsKey |-> Undef, dependsOn |-> <<>>,
   optionsUrl |-> Undef]
\* what a step did: the event handled, the source its refresh() took the
\* options from and whether it issued a fetch, the source of the latest
\* refresh() and how the latest fetch ended
NoStep ==
  [event |-> "idle", source |-> "none", fetched |-> FALSE, refresh |-> "none",
   latest |-> "none"]

IdleOpt ==
  /\ oParams = NoParams
  /\ oListMap = EmptyObj
  /\ oValues = EmptyObj
  /\ oOptions = <<>>
  /\ oIsLoading = FALSE
  /\ oError = Null
  /\ oRequests = {}
  /\ oIssued = 0
  /\ oNotify = FALSE
  /\ oLast = NoStep

\* the options of useDynamicForm that submitForm reads; a callback is
\* either passed or not
NoConfig ==
  [submitUrl |-> Undef, schemaSubmitUrl |-> Undef, onSubmitSuccess |-> FALSE,
   onSubmitError |-> FALSE]

\* what a step did: the event, the call it belongs to, whether another call
\* was in flight during that call, whether the call started with the error
\* of a failed one in submitError, what the call threw to its caller and
\* what the callback it invoked received
NoCall ==
  [event |-> "idle", call |-> 0, overlapped |-> FALSE, afterFailure |-> FALSE,
   thrown |-> Undef, callback |-> Undef]

IdleSub ==
  /\ sConfig = NoConfig
  /\ sIsSubmitting = FALSE
  /\ sSubmitError = Undef
  /\ sCalls = {}
  /\ sStarted = 0
  /\ sLast = NoCall

\* what a step of a rendered form did
NoFormEvent == [kind |-> "idle", invoked |-> FALSE]

IdleFrm ==
  /\ rFields = <<>>
  /\ rValidators = Undef
  /\ rUserDefaults = [id |-> 0, value |-> Undef]
  /\ rValues = EmptyObj
  /\ rErrors = {}
  /\ rRenders = 0
  /\ rEvent = NoFormEvent

IdleRest == IdleMrg /\ IdleArr /\ IdleOpt /\ IdleSub /\ IdleFrm

\* longest dependency list of the field under evaluation
MaxDeps == 2

SeqsUpTo(S, n) == UNION {[1..k -> S] : k \in 0..n}

One == Str(<<"1">>)

\* the dependencies the field under evaluation may declare
TargetDeps ==
  {Dependency("A", "equals", Num(1), a) : a \in Actions}
    \cup {Dependency("B", "equals", Num(2), a) : a \in Actions}

\* the values the user gives the two source fields
AValues == {EmptyStr, Num(1), One}
BValues == {Undef, Num(2), Num(3)}
SourceValues(name) == IF name = "A" THEN AValues ELSE BValues

\* paths that name nothing in the values of FormFields
MissingPaths ==
  {"ghost", "ghost.y", "n.y", "A.y", "g.z", "g.x.y", "arr.c", "arr.0.c"}

\* a schema: two source fields, the field T under evaluation, a null-valued
\* field, a group whose children depend on missing paths, and an array
FormFields(hidden, disabled, required, dependencies) ==
  << [Field("A", "select") EXCEPT
        !.options = <<Option(Num(1)), Option(Num(2)), Option(One)>>],
     Field("B", "number"),
     [Field("T", "text") EXCEPT
        !.hidden = hidden, !.disabled = disabled,
        !.validation = [NoValidation EXCEPT !.required = required],
        !.dependencies = dependencies],
     [Field("n", "text") EXCEPT !.defaultValue = Null],
     [Field("g", "group") EXCEPT
        !.children =
          << [Field("x", "text") EXCEPT
                !.dependencies = <<Dependency("ghost.y", "equals", Num(1), "show")>>],
             [Field("w", "text") EXCEPT
                !.hidden = Bool(TRUE),
                !.validation = [NoValidation EXCEPT !.required = Str(<<"m">>)],
                !.dependencies = <<Dependency("n.y", "equals", Num(1), "hide"),
                                   Dependency("A.y", "equals", One, "disable"),
                                   Dependency("g.z", "equals", EmptyStr, "optional")>>] >>],
     [Field("arr", "array") EXCEPT
        !.children = << [Field("c", "text") EXCEPT !.hidden = Bool(TRUE)] >>] >>

\* the static hidden, disabled and validation.required of the field T
Seeds ==
  {<<Undef, Undef, Undef>>, <<Bool(TRUE), Undef, Undef>>,
   <<Undef, Bool(TRUE), Undef>>, <<Undef, Undef, Bool(TRUE)>>}

Schemas ==
  {FormFields(s[1], s[2], s[3], deps) :
     s \in Seeds, deps \in SeqsUpTo(TargetDeps, MaxDeps)}

\* mergedDefaults, with no caller defaults
MergedDefaults(fieldList) ==
  mergeDefaultValues(parseFormSchemaDefaults(fieldList), Undef)

InitDep ==
  /\ IdleCond
  /\ IdleVal
  /\ IdleRest
  /\ fields \in Schemas
  /\ formValues = MergedDefaults(fields)
  /\ fieldStates = ComputeFieldStates(fields, formValues)
  /\ lastEvent = "init"

\* the user changes a source field: the form state stores the value and
\* the next render recomputes the field states from the new snapshot
SetValue(name, value) ==
  /\ formValues' = Obj(ObjSet(formValues.v, name, value))
  /\ fieldStates' = ComputeFieldStates(fields, formValues')
  /\ lastEvent' = "change"
  /\ UNCHANGED <<fields, condVars, valVars, restVars>>

\* the reset button: reset(mergedDefaults)
Reset ==
  /\ formValues' = MergedDefaults(fields)
  /\ fieldStates' = ComputeFieldStates(fields, formValues')
  /\ lastEvent' = "reset"
  /\ UNCHANGED <<fields, condVars, valVars, restVars>>

NextDep ==
  \/ \E name \in {"A", "B"} : \E value \in SourceValues(name) : SetValue(name, value)
  \/ Reset

SpecDep == InitDep /\ [][NextDep]_vars

(***************************************************************************)
(* One dependency evaluated against one field value.                       *)
(***************************************************************************)
\* condition kinds no case of checkCondition names
UnknownConditions == {"matches", "startsWith"}

Letters == Str(<<"o", "n">>)

\* dependency.value and the value of the field the dependency names
ConditionValues ==
  {Undef, Num(1), Num(2), One, Str(<<"o">>), EmptyStr, EmptyArr,
   Arr(<<Num(1), One>>)}
ConditionFieldValues ==
  {Undef, Null, EmptyStr, One, Letters, Num(1), Num(2), NaN, Bool(TRUE),
   EmptyArr, Arr(<<Num(1)>>), EmptyObj}

\* the field whose single dependency is evaluated
DependentField(dependency, seed) ==
  [Field("T", "text") EXCEPT
     !.hidden = IF seed THEN Bool(TRUE) ELSE Undef,
     !.disabled = IF seed THEN Bool(TRUE) ELSE Undef,
     !.validation = [NoValidation EXCEPT
                       !.required = IF seed THEN Bool(TRUE) ELSE Undef],
     !.dependencies = <<dependency>>]

InitCond ==
  /\ IdleDep
  /\ IdleVal
  /\ IdleRest
  /\ cDependency \in
       {Dependency("A", c, v, a) :
          c \in Conditions \cup UnknownConditions, v \in ConditionValues,
          a \in Actions}
  /\ cFieldValue \in ConditionFieldValues
  /\ cSeed \in BOOLEAN
  /\ cResult = NoResult

\* the evaluator runs on values holding the field value under A
EvaluateDependency ==
  /\ ~cResult.done
  /\ cResult' =
       [done |-> TRUE,
        met |-> checkCondition(cDependency, cFieldValue),
        state |-> computeFieldState(DependentField(cDependency, cSeed),
                                    Obj([A |-> cFieldValue]))]
  /\ UNCHANGED <<cDependency, cFieldValue, cSeed, depVars, valVars, restVars>>

NextCond == EvaluateDependency

SpecCond == InitCond /\ [][NextCond]_vars

(***************************************************************************)
(* One schema compiled by parseFormSchema and its values validated by the  *)
(* resolver.                                                               *)
(***************************************************************************)
\* largest min, max bound of a number field
MaxBound == 2

FieldTypes ==
  {"text", "number", "email", "password", "textarea", "select", "radio",
   "checkbox", "date", "datetime", "switch", "file", "group", "array"}

CustomMessage == Str(<<"m">>)
LetterA == Str(<<"a">>)

\* validation.required
RequiredRules == {Undef, Bool(FALSE), Bool(TRUE), CustomMessage}

\* defaultValue
DeclaredDefaults == {Undef, Bool(FALSE), Num(0), EmptyStr, LetterA}

\* the children of the group and array fields
Children ==
  << Field("k", "text"),
     Field("m", "number"),
     [Field("s", "switch") EXCEPT !.defaultValue = Bool(TRUE)],
     [Field("q", "checkbox") EXCEPT !.options = <<Option(Num(1)), Option(Num(2))>>],
     [Field("i", "group") EXCEPT !.children = <<Field("j", "array")>>] >>

ChildrenOf(type) == IF type \in {"group", "array"} THEN Children ELSE <<>>

\* the options of a field with n options
Options(n) == [i \in 1..n |-> Option(Num(i))]

\* {value, message}
Rule(n, message) == Obj([value |-> Num(n), message |-> message])

NumberRules == {Undef} \cup {Num(n) : n \in 0..MaxBound}

AgeField ==
  [Field("f", "number") EXCEPT
     !.validation = [NoValidation EXCEPT
                       !.required = CustomMessage,
                       !.min = Rule(18, Str(<<"1", "8">>)),
                       !.max = Rule(65, Str(<<"6", "5">>))]]

ValidatedFields ==
  {[Field("f", type) EXCEPT
      !.validation = [NoValidation EXCEPT !.required = required],
      !.defaultValue = default,
      !.children = ChildrenOf(type)] :
     type \in FieldTypes, required \in RequiredRules, default \in DeclaredDefaults}
  \cup
  {[Field("f", "checkbox") EXCEPT
      !.validation = [NoValidation EXCEPT !.required = required],
      !.defaultValue = default,
      !.options = Options(n)] :
     n \in 1..2, required \in RequiredRules, default \in {Undef, Bool(FALSE)}}
  \cup
  {[Field("f", "number") EXCEPT
      !.validation = [NoValidation EXCEPT
                        !.required = required, !.min = min, !.max = max]] :
     required \in {Undef, Bool(TRUE)}, min \in NumberRules, max \in NumberRules}
  \cup {AgeField}

\* the values a user or caller can put under the field
InputValues ==
  {Undef, Null, EmptyStr, LetterA, NaN, Bool(FALSE), Bool(TRUE), EmptyArr,
   Arr(<<LetterA>>), EmptyObj, DateValue}
  \cup {Num(n) : n \in (0 - 1)..(MaxBound + 1)}
  \cup {Num(17), Num(18), Num(30), Num(65), Num(66)}

InitVal ==
  /\ IdleDep
  /\ IdleCond
  /\ IdleRest
  /\ vFields \in {<<field>> : field \in ValidatedFields}
  /\ vParsed = NotParsed
  /\ vValues = EmptyObj
  /\ vIssues = {}
  /\ vPhase = "schema"

\* the renderer parses the schema and starts the form on the merged defaults
Compile ==
  /\ vPhase = "schema"
  /\ ~IsThrown(parseFormSchema(vFields))
  /\ vParsed' = parseFormSchema(vFields)
  /\ vValues' = mergeDefaultValues(vParsed'.defaultValues, Undef)
  /\ vPhase' = "parsed"
  /\ UNCHANGED <<vFields, vIssues, depVars, condVars, restVars>>

\* a value is put under the field
Input(value) ==
  /\ vPhase \in {"parsed", "validated"}
  /\ vValues' = Obj(ObjSet(vValues.v, "f", value))
  /\ vPhase' = "parsed"
  /\ vIssues' = {}
  /\ UNCHANGED <<vFields, vParsed, depVars, condVars, restVars>>

\* zodResolver(zodSchema): the values are parsed by the compiled validator
Validate ==
  /\ vPhase = "parsed"
  /\ vIssues' = SafeParse(vParsed.zodSchema, vValues, <<>>)
  /\ vPhase' = "validated"
  /\ UNCHANGED <<vFields, vParsed, vValues, depVars, condVars, restVars>>

NextVal ==
  \/ Compile
  \/ \E value \in InputValues : Input(value)
  \/ Validate

SpecVal == InitVal /\ [][NextVal]_vars

(***************************************************************************)
(* One schema whose field declares string constraints, compiled and        *)
(* validated the same way.                                                 *)
(***************************************************************************)
\* validation of a field with one constraint: none, minLength, maxLength,
\* pattern (as a string and as {value, message}), email, url
Constraints ==
  {<<"custom", Undef>>, <<"minLength", Num(2)>>, <<"maxLength", Num(1)>>,
   <<"pattern", PatternAs>>, <<"pattern", PatternMalformed>>,
   <<"pattern", Obj([value |-> PatternMalformed, message |-> CustomMessage])>>,
   <<"email", Bool(TRUE)>>, <<"url", Bool(TRUE)>>}

StringValidations ==
  {[[NoValidation EXCEPT !.required = required] EXCEPT ![c[1]] = c[2]] :
     required \in {Undef, Bool(FALSE), Bool(TRUE)}, c \in Constraints}

\* a text, email or number field with the constraint, alone or as the
\* child k of a group or of an array
ConstrainedFields ==
  {[Field("f", type) EXCEPT !.validation = validation] :
     type \in {"text", "email", "number"}, validation \in StringValidations}
  \cup
  {[Field("f", type) EXCEPT
      !.children = <<[Field("k", "text") EXCEPT !.validation = validation]>>] :
     type \in {"group", "array"},
     validation \in {v \in StringValidations : v.required = Undef}}

\* what a user can type into the field
StringInputs ==
  {EmptyStr, LetterA, Str(<<"a", "a">>), Str(<<"b">>),
   Str(<<"a", "@", "a", ".", "a", "a">>), Str(<<"a", ":">>)}

InitStr ==
  /\ IdleDep
  /\ IdleCond
  /\ IdleRest
  /\ vFields \in {<<field>> : field \in ConstrainedFields}
  /\ vParsed = NotParsed
  /\ vValues = EmptyObj
  /\ vIssues = {}
  /\ vPhase = "schema"

\* parseFormSchema throws while the renderer builds the validator
CompileFailed ==
  /\ vPhase = "schema"
  /\ IsThrown(parseFormSchema(vFields))
  /\ vParsed' = parseFormSchema(vFields)
  /\ vPhase' = "failed"
  /\ UNCHANGED <<vFields, vValues, vIssues, depVars, condVars, restVars>>

NextStr ==
  \/ Compile
  \/ CompileFailed
  \/ \E value \in StringInputs : Input(value)
  \/ Validate

SpecStr == InitStr /\ [][NextStr]_vars

(***************************************************************************)
(* One call of mergeDefaultValues on the defaults of a schema and the      *)
(* defaults of a caller.                                                   *)
(***************************************************************************)
\* the fields the merged schemas are made of: a and b are numbers with the
\* defaults 0 and 2, g is a group of a text x and a switch y
MergeFields ==
  << [Field("a", "number") EXCEPT !.defaultValue = Num(0)],
     [Field("b", "number") EXCEPT !.defaultValue = Num(2)],
     [Field("g", "group") EXCEPT
        !.children = <<Field("x", "text"), Field("y", "switch")>>] >>

\* the sub-sequence of fs that keeps the positions in keep
RECURSIVE Pick(_, _, _)
Pick(fs, keep, i) ==
  IF i > Len(fs) THEN <<>>
  ELSE (IF i \in keep THEN <<fs[i]>> ELSE <<>>) \o Pick(fs, keep, i + 1)

MergeSchemas == {Pick(MergeFields, keep, 1) : keep \in SUBSET (1..3)}

\* what the caller may supply under a key, Thrown standing for no key
CallerValues(k) ==
  CASE k = "a" -> {Thrown, Num(1), Undef}
    [] k = "g" -> {Thrown, Obj([x |-> Str(<<"u">>)]), Null}
    [] k = "c" -> {Thrown, Num(3)}

CallerObject(f) == Obj([k \in {j \in DOMAIN f : ~IsThrown(f[j])} |-> f[k]])

CallerDefaults ==
  {Undef, Null}
    \cup {CallerObject(f) : f \in {h \in [{"a", "g", "c"} -> UNION {CallerValues(k) : k \in {"a", "g", "c"}}] :
                                     \A k \in {"a", "g", "c"} : h[k] \in CallerValues(k)}}

InitMerge ==
  /\ IdleDep
  /\ IdleCond
  /\ IdleVal
  /\ IdleArr /\ IdleOpt /\ IdleSub /\ IdleFrm
  /\ mSchemaDefaults \in {parseFormSchemaDefaults(fs) : fs \in MergeSchemas}
  /\ mUserDefaults \in CallerDefaults
  /\ mMerged = Undef
  /\ mPhase = "inputs"

\* mergedDefaults = mergeDefaultValues(schemaDefaults, userDefaultValues)
Merge ==
  /\ mPhase = "inputs"
  /\ mMerged' = mergeDefaultValues(mSchemaDefaults, mUserDefaults)
  /\ mPhase' = "merged"
  /\ UNCHANGED <<mSchemaDefaults, mUserDefaults, depVars, condVars, valVars,
                 arrVars, optVars, subVars,
                 frmVars>>

NextMerge == Merge

SpecMerge == InitMerge /\ [][NextMerge]_vars

(***************************************************************************)
(* hooks/useFieldOptions.ts                                                *)
(***************************************************************************)
\* String(x) as a property key
StringOf(x) ==
  CASE x.t = "string" -> (IF Len(x.v) = 1 THEN x.v[1] ELSE "")
    [] x.t = "number" -> ToString(x.v)
    [] OTHER -> x.t

\* useWatch({name: names}): with an array of names react-hook-form returns
\* the array of their values, also for a single name and for none
useWatch(names, values) ==
  Arr([i \in 1..Len(names) |->
         IF names[i] \in DOMAIN values.v THEN values.v[names[i]] ELSE Undef])

\* v !== undefined && v !== null && v !== ''
IsNonEmpty(v) == ~(v.t \in {"undefined", "null"} \/ StrictEquals(v, EmptyStr))

\* watchedValues.find(v => v is not empty)
FindNonEmpty(xs) ==
  IF \E i \in 1..Len(xs) : IsNonEmpty(xs[i])
  THEN xs[CHOOSE i \in 1..Len(xs) :
            IsNonEmpty(xs[i]) /\ \A j \in 1..(i - 1) : ~IsNonEmpty(xs[j])]
  ELSE Undef

\* variant: a single dependency reads the watched value itself
getParentValue_unwrapped(dependsOn, watchedValues) ==
  IF Len(dependsOn) = 0 THEN Undef
  ELSE LET found == FindNonEmpty(watchedValues.v)
       IN IF Len(dependsOn) = 1
          THEN (IF TypeOf(watchedValues.v[1]) \in {"string", "number"}
                THEN watchedValues.v[1] ELSE Undef)
          ELSE IF TypeOf(found) \in {"string", "number"} THEN found ELSE Undef

getParentValue(dependsOn, watchedValues) ==
  IF Len(dependsOn) = 0 THEN Undef
  ELSE IF Len(dependsOn) = 1
  THEN (IF TypeOf(watchedValues) \in {"string", "number"}
        THEN watchedValues ELSE Undef)
  ELSE IF IsArray(watchedValues)
  THEN LET found == FindNonEmpty(watchedValues.v)
       IN IF TypeOf(found) \in {"string", "number"} THEN found ELSE Undef
  ELSE Undef

\* getOptionsFromListMap(listKey, parentValue) on the stored listMap
getOptionsFromListMap(listMap, listKey, parentValue) ==
  LET listData == IF StringOf(listKey) \in DOMAIN listMap.v
                  THEN listMap.v[StringOf(listKey)] ELSE Undef
  IN IF ~Truthy(listData) THEN <<>>
     ELSE IF IsArray(listData) THEN listData.v
     ELSE IF IsNonEmpty(parentValue)
     THEN (IF StringOf(parentValue) \in DOMAIN listData.v
           THEN listData.v[StringOf(parentValue)].v ELSE <<>>)
     ELSE <<>>

\* the hook state a call leaves, and what the call returned
Outcome(handled, options, isLoading, error) ==
  [handled |-> handled, options |-> options, isLoading |-> isLoading,
   error |-> error]

\* variant: an empty lookup is taken as the answer whenever optionsKey is set
loadFromListMap_strict(params, listMap, watchedValues, options, isLoading, error) ==
  IF ~Truthy(params.optionsKey) THEN Outcome(FALSE, options, isLoading, error)
  ELSE LET parentValue == getParentValue(params.dependsOn, watchedValues)
           loadedOptions ==
             getOptionsFromListMap(listMap, params.optionsKey, parentValue)
       IN IF Len(loadedOptions) > 0
          THEN Outcome(TRUE, loadedOptions, isLoading, Null)
          ELSE Outcome(TRUE, <<>>, isLoading, error)

loadFromListMap(params, listMap, watchedValues, options, isLoading, error) ==
  IF ~Truthy(params.optionsKey) THEN Outcome(FALSE, options, isLoading, error)
  ELSE LET parentValue == getParentValue(params.dependsOn, watchedValues)
           loadedOptions ==
             getOptionsFromListMap(listMap, params.optionsKey, parentValue)
       IN IF Len(loadedOptions) > 0
          THEN Outcome(TRUE, loadedOptions, isLoading, Null)
          ELSE IF /\ Len(params.dependsOn) > 0
                  /\ (parentValue.t = "undefined" \/ StrictEquals(parentValue, EmptyStr))
          THEN Outcome(TRUE, <<>>, isLoading, error)
          ELSE Outcome(FALSE, options, isLoading, error)

\* the url loadFromApi fetches: optionsUrl, with the parentValue parameter
\* when there is a dependency and its value is not undefined
FetchUrl(params, watchedValues) ==
  LET parentValue == getParentValue(params.dependsOn, watchedValues)
  IN [base |-> params.optionsUrl,
      parentValue |-> IF Len(params.dependsOn) > 0 /\ parentValue.t # "undefined"
                      THEN Str(<<StringOf(parentValue)>>) ELSE Undef]

\* Array.isArray(data) ? data : data.data || data.options || data.list || []
ExtractOptions(data) ==
  IF IsArray(data) THEN data.v
  ELSE IF "data" \in DOMAIN data.v /\ Truthy(data.v["data"]) THEN data.v["data"].v
  ELSE IF "options" \in DOMAIN data.v /\ Truthy(data.v["options"]) THEN data.v["options"].v
  ELSE IF "list" \in DOMAIN data.v /\ Truthy(data.v["list"]) THEN data.v["list"].v
  ELSE <<>>

\* refresh(): the hook state it leaves, the source it took the options
\* from, and the url of the fetch it issued (Undef when it issued none)
refresh(params, listMap, watchedValues, options, isLoading, error) ==
  LET fromListMap ==
        loadFromListMap(params, listMap, watchedValues, options, isLoading, error)
  IN IF fromListMap.handled
     THEN [options |-> fromListMap.options, isLoading |-> isLoading,
           error |-> fromListMap.error, source |-> "listMap", url |-> Undef]
     ELSE IF Truthy(params.optionsUrl)
     THEN [options |-> options, isLoading |-> TRUE, error |-> Null,
           source |-> "api", url |-> FetchUrl(params, watchedValues)]
     ELSE [options |-> params.staticOptions, isLoading |-> isLoading,
           error |-> error, source |-> "static", url |-> Undef]

(***************************************************************************)
(* One array field of a form session: UniversalArrayField (and the         *)
(* identical ArrayField) over useFieldArray.                               *)
(***************************************************************************)
\* largest minItems, maxItems a schema declares
MaxItems == 2

\* the item lists of the model are no longer than this
ItemsCap == MaxItems + 2

ItemBounds == {Undef} \cup {Num(n) : n \in 0..MaxItems}

\* the array fields: a required child k without a declared default and a
\* child r with one, every pair of bounds with minItems <= maxItems
ArrayFields ==
  {[Field("arr", "array") EXCEPT
      !.children = <<[Field("k", "text") EXCEPT
                        !.validation = [NoValidation EXCEPT !.required = Bool(TRUE)]],
                     [Field("r", "number") EXCEPT !.defaultValue = Num(0)]>>,
      !.minItems = b[1], !.maxItems = b[2]] :
     b \in {c \in ItemBounds \X ItemBounds :
              c[1] = Undef \/ c[2] = Undef \/ c[1].v <= c[2].v}}

\* an item a caller supplies
CallerItem == Obj([k |-> LetterA, r |-> Num(1)])

\* the defaultValues prop: none, or n items under the field
ArrayCallerDefaults ==
  {Undef} \cup {Obj([arr |-> Arr([i \in 1..n |-> CallerItem])]) : n \in 0..(MaxItems + 1)}

\* mergedDefaults of the session
ArrayMergedDefaults ==
  mergeDefaultValues(parseFormSchemaDefaults(<<aField>>), aUserDefaults)

\* fields of useFieldArray({control, name: field.name})
Items(values) == values.v["arr"].v

isDisabled(fieldState, readonly) == fieldState.disabled \/ readonly

\* variant: the add control stays enabled at maxItems
canAdd_inclusive(field, fieldState, readonly, items) ==
  /\ ~isDisabled(fieldState, readonly)
  /\ (IF field.maxItems.t = "undefined" THEN TRUE
      ELSE Len(items) <= field.maxItems.v)

canAdd(field, fieldState, readonly, items) ==
  /\ ~isDisabled(fieldState, readonly)
  /\ (IF field.maxItems.t = "undefined" THEN TRUE
      ELSE Len(items) < field.maxItems.v)

\* variant: the remove control stays enabled at minItems
canRemove_inclusive(field, fieldState, readonly, items) ==
  /\ ~isDisabled(fieldState, readonly)
  /\ (IF field.minItems.t = "undefined" THEN TRUE
      ELSE Len(items) >= field.minItems.v)

canRemove(field, fieldState, readonly, items) ==
  /\ ~isDisabled(fieldState, readonly)
  /\ (IF field.minItems.t = "undefined" THEN TRUE
      ELSE Len(items) > field.minItems.v)

\* getChildDefaults(): child.defaultValue ?? '' under each child name
RECURSIVE getChildDefaults(_, _, _)
getChildDefaults(defaults, children, i) ==
  IF i > Len(children) THEN Obj(defaults)
  ELSE getChildDefaults(
         ObjSet(defaults, children[i].name,
                IF IsNullish(children[i].defaultValue) THEN EmptyStr
                ELSE children[i].defaultValue),
         children, i + 1)

\* xs without its i-th element
RemoveAt(xs, i) == SubSeq(xs, 1, i - 1) \o SubSeq(xs, i + 1, Len(xs))

InitArr ==
  /\ IdleDep /\ IdleCond /\ IdleVal
  /\ IdleMrg /\ IdleOpt /\ IdleSub /\ IdleFrm
  /\ aField \in ArrayFields
  /\ aUserDefaults \in ArrayCallerDefaults
  /\ aValues = ArrayMergedDefaults
  /\ aFieldState \in {[DefaultFieldState EXCEPT !.visible = v, !.disabled = d] :
                        v \in BOOLEAN, d \in BOOLEAN}
  /\ aReadonly \in BOOLEAN
  /\ aEvent = "init"

\* the add button: append(getChildDefaults())
ArrayAppend ==
  /\ aFieldState.visible
  /\ canAdd(aField, aFieldState, aReadonly, Items(aValues))
  /\ Len(Items(aValues)) < ItemsCap
  /\ aValues' = Obj(ObjSet(aValues.v, "arr",
                           Arr(Append(Items(aValues),
                                      getChildDefaults(<<>>, aField.children, 1)))))
  /\ aEvent' = "append"
  /\ UNCHANGED <<aField, aUserDefaults, aFieldState, aReadonly,
                 depVars, condVars, valVars, mrgVars, optVars, subVars,
                 frmVars>>

\* the remove button of the item at index: remove(index)
ArrayRemove(index) ==
  /\ aFieldState.visible
  /\ canRemove(aField, aFieldState, aReadonly, Items(aValues))
  /\ aValues' = Obj(ObjSet(aValues.v, "arr", Arr(RemoveAt(Items(aValues), index))))
  /\ aEvent' = "remove"
  /\ UNCHANGED <<aField, aUserDefaults, aFieldState, aReadonly,
                 depVars, condVars, valVars, mrgVars, optVars, subVars,
                 frmVars>>

\* the reset button of the form: reset(mergedDefaults)
ArrayReset ==
  /\ aValues' = ArrayMergedDefaults
  /\ aEvent' = "reset"
  /\ UNCHANGED <<aField, aUserDefaults, aFieldState, aReadonly,
                 depVars, condVars, valVars, mrgVars, optVars, subVars,
                 frmVars>>

NextArr ==
  \/ ArrayAppend
  \/ \E index \in 1..Len(Items(aValues)) : ArrayRemove(index)
  \/ ArrayReset

SpecArr == InitArr /\ [][NextArr]_vars

(***************************************************************************)
(* One useFieldOptions hook in a mounted form: the dependency fields       *)
(* change, another context replaces the listMap, fetches settle.           *)
(***************************************************************************)
\* most fetches one hook issues
MaxFetches == 2

BJ == Str(<<"BJ">>)
SH == Str(<<"SH">>)
GZ == Str(<<"GZ">>)

BJList == <<Option(Str(<<"bj1">>)), Option(Str(<<"bj2">>))>>
SHList == <<Option(Str(<<"sh1">>))>>
StudentList == <<Option(Str(<<"student">>))>>
StaticList == <<Option(Str(<<"static">>))>>

CitiesKey == Str(<<"cities">>)
CitiesUrl == Str(<<"/api/cities">>)

\* the parameters of the hook: with or without static options, optionsKey,
\* optionsUrl, and no, one or two dependency fields
ParamSets ==
  {[staticOptions |-> st, optionsKey |-> key, dependsOn |-> deps,
    optionsUrl |-> url] :
     st \in {<<>>, StaticList}, key \in {Undef, CitiesKey},
     deps \in {<<>>, <<"province">>, <<"region", "province">>},
     url \in {Undef, CitiesUrl}}

\* the stored listMap: nothing under the key, a flat list (empty or not),
\* or a cascading map
ListMaps ==
  {EmptyObj,
   Obj([cities |-> Arr(StudentList)]),
   Obj([cities |-> EmptyArr]),
   Obj([cities |-> Obj([BJ |-> Arr(BJList), SH |-> Arr(SHList)])])}

\* the values a user gives the dependency fields
DependencyValues(name) ==
  IF name = "province" THEN {EmptyStr, BJ, SH, GZ} ELSE {EmptyStr, SH}

\* the options the remote source returns for a url
RemoteList(url) ==
  <<Option(Str(<<"remote",
                 IF url.parentValue.t = "undefined" THEN "" ELSE url.parentValue.v[1]>>))>>

\* the JSON bodies it may wrap them in
ResponseBodies(url) == {Arr(RemoteList(url)), Obj([list |-> Arr(RemoteList(url))])}

\* the errors loadFromApi catches: a non-OK status, a rejected fetch
FetchErrors ==
  {Str(<<"HTTP error! status: ", "500">>), Str(<<"Failed to fetch">>)}

\* variant: a failed load clears the options
FailureOptions_cleared(options, staticOptions) == <<>>

\* the options after the catch block of loadFromApi: it does not set them
FailureOptions(options, staticOptions) == options

WatchedValues == useWatch(oParams.dependsOn, oValues)

InitOpt ==
  /\ IdleDep /\ IdleCond /\ IdleVal
  /\ IdleMrg /\ IdleArr /\ IdleSub /\ IdleFrm
  /\ oParams \in ParamSets
  /\ oListMap \in ListMaps
  /\ oValues = Obj([region |-> EmptyStr, province |-> EmptyStr])
  /\ oOptions = oParams.staticOptions
  /\ oIsLoading = FALSE
  /\ oError = Null
  /\ oRequests = {}
  /\ oIssued = 0
  /\ oNotify = FALSE
  /\ oLast = [NoStep EXCEPT !.event = "created"]

\* the hook runs refresh() on the current values and the stored listMap
RunRefresh(event, values) ==
  LET r == refresh(oParams, oListMap, useWatch(oParams.dependsOn, values),
                   oOptions, oIsLoading, oError)
  IN /\ (r.source = "api") => oIssued < MaxFetches
     /\ oOptions' = r.options
     /\ oIsLoading' = r.isLoading
     /\ oError' = r.error
     /\ oIssued' = IF r.source = "api" THEN oIssued + 1 ELSE oIssued
     /\ oRequests' = IF r.source = "api"
                      THEN oRequests \cup {[id |-> oIssued + 1, url |-> r.url]}
                      ELSE oRequests
     /\ oLast' = [event |-> event, source |-> r.source,
                  fetched |-> (r.source = "api"), refresh |-> r.source,
                  latest |-> IF r.source = "api" THEN "pending" ELSE oLast.latest]

\* the effect of the first render
OptMount ==
  /\ oLast.event = "created"
  /\ RunRefresh("mount", oValues)
  /\ UNCHANGED <<oParams, oListMap, oValues, oNotify,
                 depVars, condVars, valVars, mrgVars, arrVars, subVars,
                 frmVars>>

\* a watched dependency field changes: the effect runs refresh() again
OptChange(name, value) ==
  /\ oLast.event # "created"
  /\ \E i \in 1..Len(oParams.dependsOn) : oParams.dependsOn[i] = name
  /\ oValues.v[name] # value
  /\ oValues' = Obj(ObjSet(oValues.v, name, value))
  /\ RunRefresh("change", oValues')
  /\ UNCHANGED <<oParams, oListMap, oNotify,
                 depVars, condVars, valVars, mrgVars, arrVars, subVars,
                 frmVars>>

\* another context replaces the stored listMap: setListMap(listMap) there
\* queues a storage event here
OptSetListMap(listMap) ==
  /\ oLast.event # "created"
  /\ listMap # oListMap
  /\ oListMap' = listMap
  /\ oNotify' = TRUE
  /\ oLast' = [oLast EXCEPT !.event = "replaced", !.source = "none",
                             !.fetched = FALSE]
  /\ UNCHANGED <<oParams, oValues, oOptions, oIsLoading, oError, oRequests,
                 oIssued, depVars, condVars, valVars, mrgVars, arrVars, subVars,
                 frmVars>>

\* handleStorageChange for the key listMap
OptStorageEvent ==
  /\ oNotify
  /\ oNotify' = FALSE
  /\ IF Truthy(oParams.optionsKey)
     THEN RunRefresh("storage", oValues)
     ELSE /\ oLast' = [oLast EXCEPT !.event = "storage", !.source = "none",
                                    !.fetched = FALSE]
          /\ UNCHANGED <<oOptions, oIsLoading, oError, oRequests, oIssued>>
  /\ UNCHANGED <<oParams, oListMap, oValues,
                 depVars, condVars, valVars, mrgVars, arrVars, subVars,
                 frmVars>>

\* a suspended loadFromApi resumes with an OK response
OptFetchResolved(request, data) ==
  /\ request \in oRequests
  /\ oRequests' = oRequests \ {request}
  /\ oOptions' = ExtractOptions(data)
  /\ oIsLoading' = FALSE
  /\ oLast' = [oLast EXCEPT !.event = "resolved", !.source = "api",
                             !.fetched = FALSE,
                             !.latest = IF request.id = oIssued THEN "ok" ELSE @]
  /\ UNCHANGED <<oParams, oListMap, oValues, oError, oIssued, oNotify,
                 depVars, condVars, valVars, mrgVars, arrVars, subVars,
                 frmVars>>

\* a suspended loadFromApi resumes in its catch block
OptFetchFailed(request, err) ==
  /\ request \in oRequests
  /\ oRequests' = oRequests \ {request}
  /\ oOptions' = FailureOptions(oOptions, oParams.staticOptions)
  /\ oError' = err
  /\ oIsLoading' = FALSE
  /\ oLast' = [oLast EXCEPT !.event = "rejected", !.source = "api",
                             !.fetched = FALSE,
                             !.latest = IF request.id = oIssued THEN "failed" ELSE @]
  /\ UNCHANGED <<oParams, oListMap, oValues, oIssued, oNotify,
                 depVars, condVars, valVars, mrgVars, arrVars, subVars,
                 frmVars>>

NextOpt ==
  \/ OptMount
  \/ \E name \in {"region", "province"} :
       \E value \in DependencyValues(name) : OptChange(name, value)
  \/ \E listMap \in ListMaps : OptSetListMap(listMap)
  \/ OptStorageEvent
  \/ \E request \in oRequests :
       \E data \in ResponseBodies(request.url) : OptFetchResolved(request, data)
  \/ \E request \in oRequests :
       \E err \in FetchErrors : OptFetchFailed(request, err)

SpecOpt == InitOpt /\ [][NextOpt]_vars

(***************************************************************************)
(* hooks/useDynamicForm.ts: submitForm.  A call suspends at the request    *)
(* and resumes when it settles; nothing keeps a caller from calling again  *)
(* before that.                                                            *)
(***************************************************************************)
\* most submitForm calls of one session
MaxSubmits == 3

SubmitUrl == Str(<<"/api/submit">>)
SchemaSubmitUrl == Str(<<"/api/schema-submit">>)

ErrorValue(message) == [t |-> "Error", message |-> message]

\* what the request may reject with: an AxiosError, or a value that is not
\* an Error
Rejections ==
  {ErrorValue("Request failed with status code 500"),
   ErrorValue("Network Error"),
   Str(<<"rejected">>)}

\* the response body of a successful request
ResponseData == Obj([ok |-> Bool(TRUE)])

SubmitConfigs ==
  {[submitUrl |-> u, schemaSubmitUrl |-> su, onSubmitSuccess |-> ok,
    onSubmitError |-> ko] :
     u \in {Undef, SubmitUrl}, su \in {Undef, SchemaSubmitUrl},
     ok \in BOOLEAN, ko \in BOOLEAN}

\* submitUrl ?? schema?.submit?.url
TargetUrl(config) ==
  IF IsNullish(config.submitUrl) THEN config.schemaSubmitUrl ELSE config.submitUrl

\* err instanceof Error ? err : new Error(the parser's text)
AsError(err) == IF err.t = "Error" THEN err ELSE ErrorValue("submit failed")

\* variant: the catch block records the error and does not rethrow it
submitFormCatch_swallowed(config, err) ==
  [submitError |-> AsError(err),
   callback |-> IF config.onSubmitError THEN AsError(err) ELSE Undef,
   thrown |-> Undef]

\* the catch block of submitForm: setSubmitError(error),
\* onSubmitError?.(error), throw error
submitFormCatch(config, err) ==
  [submitError |-> AsError(err),
   callback |-> IF config.onSubmitError THEN AsError(err) ELSE Undef,
   thrown |-> AsError(err)]

\* variant: a new call leaves the error of the previous one in place
submitFormStart_keepsError(isSubmitting, submitError) ==
  [isSubmitting |-> TRUE, submitError |-> submitError]

\* setIsSubmitting(true); setSubmitError(undefined)
submitFormStart(isSubmitting, submitError) ==
  [isSubmitting |-> TRUE, submitError |-> Undef]

InitSub ==
  /\ IdleDep /\ IdleCond /\ IdleVal
  /\ IdleMrg /\ IdleArr /\ IdleOpt /\ IdleFrm
  /\ sConfig \in SubmitConfigs
  /\ sIsSubmitting = FALSE
  /\ sSubmitError = Undef
  /\ sCalls = {}
  /\ sStarted = 0
  /\ sLast = [NoCall EXCEPT !.event = "created"]

\* submitForm(data) up to its await
SubmitStart ==
  /\ sStarted < MaxSubmits
  /\ sStarted' = sStarted + 1
  /\ IF ~Truthy(TargetUrl(sConfig))
     THEN /\ sLast' = [NoCall EXCEPT !.event = "noUrl", !.call = sStarted + 1]
          /\ UNCHANGED <<sIsSubmitting, sSubmitError, sCalls>>
     ELSE LET started == submitFormStart(sIsSubmitting, sSubmitError)
          IN /\ sIsSubmitting' = started.isSubmitting
             /\ sSubmitError' = started.submitError
             /\ sCalls' = {[c EXCEPT !.overlapped = TRUE] : c \in sCalls}
                            \cup {[id |-> sStarted + 1, overlapped |-> sCalls # {},
                                    afterFailure |-> sSubmitError # Undef]}
             /\ sLast' = [NoCall EXCEPT !.event = "start", !.call = sStarted + 1,
                                        !.overlapped = sCalls # {},
                                        !.afterFailure = sSubmitError # Undef]
  /\ UNCHANGED <<sConfig, depVars, condVars, valVars, mrgVars, arrVars, optVars,
                 frmVars>>

\* the request of a call succeeds: onSubmitSuccess?.(response.data), finally
SubmitResolved(call) ==
  /\ call \in sCalls
  /\ sCalls' = sCalls \ {call}
  /\ sIsSubmitting' = FALSE
  /\ sLast' = [event |-> "resolved", call |-> call.id,
               overlapped |-> call.overlapped,
               afterFailure |-> call.afterFailure, thrown |-> Undef,
               callback |-> IF sConfig.onSubmitSuccess THEN ResponseData ELSE Undef]
  /\ UNCHANGED <<sConfig, sSubmitError, sStarted,
                 depVars, condVars, valVars, mrgVars, arrVars, optVars,
                 frmVars>>

\* the request of a call fails: catch, finally
SubmitRejected(call, err) ==
  LET caught == submitFormCatch(sConfig, err)
  IN /\ call \in sCalls
     /\ sCalls' = sCalls \ {call}
     /\ sSubmitError' = caught.submitError
     /\ sIsSubmitting' = FALSE
     /\ sLast' = [event |-> "rejected", call |-> call.id,
                  overlapped |-> call.overlapped,
                  afterFailure |-> call.afterFailure, thrown |-> caught.thrown,
                  callback |-> caught.callback]
     /\ UNCHANGED <<sConfig, sStarted,
                    depVars, condVars, valVars, mrgVars, arrVars, optVars,
                 frmVars>>

NextSub ==
  \/ SubmitStart
  \/ \E call \in sCalls : SubmitResolved(call)
  \/ \E call \in sCalls : \E err \in Rejections : SubmitRejected(call, err)

SpecSub == InitSub /\ [][NextSub]_vars

(***************************************************************************)
(* One rendered form: UniversalFormRendererInner with its props.  The user *)
(* edits and submits, the parent re-renders it with new defaultValues.     *)
(***************************************************************************)
\* re-renders by the parent in one session
MaxRenders == 2

\* the validator of the guide's example, reduced to one valid value:
\* validators = { validateIdNumber: (value, formValues) => true | message }
validateIdNumber(value, allFormValues) ==
  IF TypeOf(value) # "string" THEN Str(<<"missing">>)
  ELSE IF value # LetterA THEN Str(<<"format">>)
  ELSE Bool(TRUE)

\* the validators prop: absent, or a registry with validateIdNumber
Validators ==
  {Undef, Obj([validateIdNumber |-> [t |-> "function", v |-> "validateIdNumber"]])}

\* the two-field schemas: a source field A and a text field T whose
\* validation.required, validation.custom and dependency vary
RenderedSchemas ==
  { << [Field("A", "select") EXCEPT !.options = <<Option(Num(1)), Option(Num(2))>>],
       [Field("T", "text") EXCEPT
          !.validation = [NoValidation EXCEPT !.required = required,
                                              !.custom = custom],
          !.dependencies = dependencies] >> :
      required \in {Undef, Bool(TRUE)},
      custom \in {Undef, Str(<<"validateIdNumber">>)},
      dependencies \in {<<>>, <<Dependency("A", "equals", Num(1), "hide")>>,
                        <<Dependency("A", "equals", Num(1), "require")>>} }

\* the objects a caller passes as defaultValues
RenderedDefaults == {Undef, Obj([T |-> LetterA]), Obj([A |-> Num(1)])}

\* what the user can put under a field
RenderedInputs(name) ==
  IF name = "A" THEN {EmptyStr, Num(1)} ELSE {EmptyStr, LetterA, Str(<<"b">>)}

\* useMemo(() => parseFormSchema(schema), [schema])
RenderedParsed == parseFormSchema(rFields)

\* the effect on [userDefaultValues, reset, schemaDefaults]: the values
\* the form holds once the effect has run for the defaultValues prop
ResetEffect(schemaDefaults, userDefaultValues, values) ==
  IF Truthy(userDefaultValues)
  THEN mergeDefaultValues(schemaDefaults, userDefaultValues)
  ELSE values

\* handleSubmit(handleFormSubmit): the resolver's issues for the values
Resolve(zodSchema, values) == SafeParse(zodSchema, values, <<>>)

InitForm ==
  /\ IdleDep /\ IdleCond /\ IdleVal
  /\ IdleMrg /\ IdleArr /\ IdleOpt /\ IdleSub
  /\ rFields \in RenderedSchemas
  /\ rValidators \in Validators
  /\ rUserDefaults \in {[id |-> 0, value |-> v] : v \in RenderedDefaults}
  /\ rValues = mergeDefaultValues(RenderedParsed.defaultValues, rUserDefaults.value)
  /\ rErrors = {}
  /\ rRenders = 0
  /\ rEvent = [kind |-> "mount", invoked |-> FALSE]

\* the user edits a field
FormChange(name, value) ==
  /\ rValues' = Obj(ObjSet(rValues.v, name, value))
  /\ rEvent' = [kind |-> "change", invoked |-> FALSE]
  /\ UNCHANGED <<rFields, rValidators, rUserDefaults, rErrors, rRenders,
                 depVars, condVars, valVars, mrgVars, arrVars, optVars, subVars>>

\* the parent re-renders with a new defaultValues object (or none); the
\* effect runs because userDefaultValues changed identity
FormDefaultsChange(value) ==
  /\ rRenders < MaxRenders
  /\ rRenders' = rRenders + 1
  /\ rUserDefaults' = [id |-> rUserDefaults.id + 1, value |-> value]
  /\ rValues' = ResetEffect(RenderedParsed.defaultValues, value, rValues)
  /\ rErrors' = IF Truthy(value) THEN {} ELSE rErrors
  /\ rEvent' = [kind |-> "defaults", invoked |-> FALSE]
  /\ UNCHANGED <<rFields, rValidators,
                 depVars, condVars, valVars, mrgVars, arrVars, optVars, subVars>>

\* the parent re-renders with the same schema and defaultValues objects:
\* no dependency of the effect changed, it does not run
FormRerender ==
  /\ rRenders < MaxRenders
  /\ rRenders' = rRenders + 1
  /\ rEvent' = [kind |-> "render", invoked |-> FALSE]
  /\ UNCHANGED <<rFields, rValidators, rUserDefaults, rValues, rErrors,
                 depVars, condVars, valVars, mrgVars, arrVars, optVars, subVars>>

\* variant: the issues of a field the dependencies hide are dropped
FormSubmit_skipsHidden ==
  /\ rErrors' = {issue \in Resolve(RenderedParsed.zodSchema, rValues) :
                   getFieldState(ComputeFieldStates(rFields, rValues),
                                 issue.path[1]).visible}
  /\ rEvent' = [kind |-> "submit", invoked |-> rErrors' = {}]
  /\ UNCHANGED <<rFields, rValidators, rUserDefaults, rValues, rRenders,
                 depVars, condVars, valVars, mrgVars, arrVars, optVars, subVars>>

\* the submit button: the resolver validates, onSubmit runs when it passes
FormSubmit ==
  /\ rErrors' = Resolve(RenderedParsed.zodSchema, rValues)
  /\ rEvent' = [kind |-> "submit", invoked |-> rErrors' = {}]
  /\ UNCHANGED <<rFields, rValidators, rUserDefaults, rValues, rRenders,
                 depVars, condVars, valVars, mrgVars, arrVars, optVars, subVars>>

\* the reset button: reset(mergedDefaults)
FormReset ==
  /\ rValues' = mergeDefaultValues(RenderedParsed.defaultValues, rUserDefaults.value)
  /\ rErrors' = {}
  /\ rEvent' = [kind |-> "reset", invoked |-> FALSE]
  /\ UNCHANGED <<rFields, rValidators, rUserDefaults, rRenders,
                 depVars, condVars, valVars, mrgVars, arrVars, optVars, subVars>>

NextForm ==
  \/ \E name \in {"A", "T"} : \E value \in RenderedInputs(name) : FormChange(name, value)
  \/ \E value \in RenderedDefaults : FormDefaultsChange(value)
  \/ FormRerender
  \/ FormSubmit
  \/ FormReset

SpecForm == InitForm /\ [][NextForm]_vars

(***************************************************************************)
(* Properties of the dependency evaluator                                  *)
(***************************************************************************)
\* the paths processFields computes a state for, and their fields
FieldPaths == {"A", "B", "T", "n", "g", "g.x", "g.w", "arr", "arr.c"}

FieldAt(path) ==
  CASE path = "A" -> fields[1]
    [] path = "B" -> fields[2]
    [] path = "T" -> fields[3]
    [] path = "n" -> fields[4]
    [] path = "g" -> fields[5]
    [] path = "g.x" -> fields[5].children[1]
    [] path = "g.w" -> fields[5].children[2]
    [] path = "arr" -> fields[6]
    [] path = "arr.c" -> fields[6].children[1]

Attributes == {"visible", "disabled", "required"}

\* whether the dependency's condition holds in the current values
Met(dependency) ==
  checkCondition(dependency, getNestedValue(formValues, dependency.field))

\* whether the dependency assigns the attribute in the current values
Writes(dependency, attr) ==
  CASE attr = "visible" -> dependency.action \in {"show", "hide"}
    [] attr = "disabled" -> dependency.action \in {"enable", "disable"}
    [] attr = "required" ->
         dependency.action \in {"require", "optional"} /\ Met(dependency)

\* the value the dependency assigns to the attribute
Effect(dependency, attr) ==
  CASE attr = "visible" -> (dependency.action = "show") <=> Met(dependency)
    [] attr = "disabled" -> (dependency.action = "disable") <=> Met(dependency)
    [] attr = "required" -> dependency.action = "require"

StaticSeed(field, attr) ==
  CASE attr = "visible" -> field.hidden \notin {Bool(TRUE)}
    [] attr = "disabled" -> field.disabled = Bool(TRUE)
    [] attr = "required" ->
         field.validation.required \notin {Undef, Bool(FALSE), EmptyStr}

LastWriter(dependencies, attr) ==
  LET W == {i \in 1..Len(dependencies) : Writes(dependencies[i], attr)}
  IN IF W = {} THEN 0 ELSE CHOOSE i \in W : \A j \in W : j <= i

ShowThenHide ==
  <<Dependency("A", "equals", Num(1), "show"),
    Dependency("B", "equals", Num(2), "hide")>>

\* C1: each attribute of every computed field state is the effect of the
\* last dependency, in declaration order, that writes the attribute, or the
\* static seed when none writes it; [A equals 1 -> show, B equals 2 -> hide]
\* with A = 1 and B = 2 ends invisible.
C1_LastRuleWins ==
  /\ \A path \in FieldPaths : \A attr \in Attributes :
       LET field == FieldAt(path)
           last == LastWriter(field.dependencies, attr)
       IN fieldStates[path][attr] =
            IF last = 0 THEN StaticSeed(field, attr)
            ELSE Effect(field.dependencies[last], attr)
  /\ (/\ fields[3].dependencies = ShowThenHide
      /\ formValues.v["A"] = Num(1)
      /\ formValues.v["B"] = Num(2)) => ~fieldStates["T"].visible

C1_Witness ==
  /\ fields[3].dependencies = ShowThenHide
  /\ formValues.v["A"] = Num(1)
  /\ formValues.v["B"] = Num(2)
  /\ lastEvent = "change"
  /\ ~fieldStates["T"].visible

\* the state of T after its first i dependencies
StateAfter(i) ==
  IF i = Len(fields[3].dependencies) THEN fieldStates["T"]
  ELSE computeFieldState(
         [fields[3] EXCEPT !.dependencies = SubSeq(fields[3].dependencies, 1, i)],
         formValues)

\* C2: a require or optional dependency never changes visible or disabled,
\* and when its condition is false it leaves required as it was before the
\* dependency was processed.
C2_RequireHasNoInverse ==
  \A i \in 1..Len(fields[3].dependencies) :
    LET dependency == fields[3].dependencies[i]
    IN dependency.action \in {"require", "optional"} =>
         /\ StateAfter(i).visible = StateAfter(i - 1).visible
         /\ StateAfter(i).disabled = StateAfter(i - 1).disabled
         /\ ~Met(dependency) => StateAfter(i).required = StateAfter(i - 1).required

C2_Witness ==
  /\ fields[3].validation.required = Bool(TRUE)
  /\ fields[3].dependencies = <<Dependency("A", "equals", Num(1), "require")>>
  /\ formValues.v["A"] = One
  /\ lastEvent = "change"
  /\ fieldStates["T"].required

\* C3: a field whose only dependency is F equals V with action show is
\* visible exactly when the current value of F is strictly equal to V,
\* whatever its static hidden attribute; hide, enable and disable behave
\* symmetrically.
C3_EqualsShowTracksValue ==
  (Len(fields[3].dependencies) = 1) =>
    LET dependency == fields[3].dependencies[1]
        current == formValues.v[dependency.field]
        same == current.t = dependency.value.t /\ current = dependency.value
    IN /\ dependency.action = "show" => (fieldStates["T"].visible <=> same)
       /\ dependency.action = "hide" => (fieldStates["T"].visible <=> ~same)
       /\ dependency.action = "disable" => (fieldStates["T"].disabled <=> same)
       /\ dependency.action = "enable" => (fieldStates["T"].disabled <=> ~same)

C3_Witness ==
  /\ fields[3].hidden = Bool(TRUE)
  /\ fields[3].dependencies = <<Dependency("A", "equals", Num(1), "show")>>
  /\ formValues.v["A"] = Num(1)
  /\ lastEvent = "change"
  /\ fieldStates["T"].visible

\* the values a dependency is compared with in the schemas
DefinedValues == {Num(1), One, EmptyStr, Bool(FALSE), Null}

\* C4: a dependency path that names nothing in the current values resolves
\* to undefined without throwing, an equals condition with a defined value
\* is then false, and every field still gets its state.
C4_MissingTargetIsUndefined ==
  /\ \A path \in MissingPaths :
       /\ getNestedValue(formValues, path) = Undef
       /\ \A value \in DefinedValues :
            ~checkCondition(Dependency(path, "equals", value, "show"),
                            getNestedValue(formValues, path))
  /\ ~IsThrown(fieldStates)
  /\ DOMAIN fieldStates = FieldPaths
  /\ fieldStates["g.x"] = [visible |-> FALSE, disabled |-> FALSE, required |-> FALSE]
  /\ fieldStates["g.w"] = [visible |-> TRUE, disabled |-> FALSE, required |-> TRUE]

C4_Witness ==
  /\ lastEvent = "change"
  /\ formValues.v["n"] = Null
  /\ "ghost" \notin DOMAIN formValues.v
  /\ ~fieldStates["g.x"].visible
  /\ fieldStates["g.w"].visible

\* paths no field of the schema has: array items, unknown names
UncomputedPaths == {"arr.0.c", "arr.1.c", "ghost", "g.z", "c", "x", ""}

\* C6: getFieldState returns the computed state for every path the
\* evaluator computed one for and {visible, not disabled, not required} for
\* every other path, never undefined.
C6_GetFieldStateDefaults ==
  /\ \A path \in FieldPaths :
       getFieldState(fieldStates, path) = computeFieldState(FieldAt(path), formValues)
  /\ \A path \in UncomputedPaths :
       getFieldState(fieldStates, path) =
         [visible |-> TRUE, disabled |-> FALSE, required |-> FALSE]

C6_Witness ==
  /\ lastEvent = "change"
  /\ ~getFieldState(fieldStates, "arr.c").visible
  /\ getFieldState(fieldStates, "arr.0.c").visible
  /\ getFieldState(fieldStates, "T") # DefaultFieldState

(***************************************************************************)
(* Properties of checkCondition                                            *)
(***************************************************************************)
\* the state of the dependent field when the action's condition holds
TrueEffect(action, seed) ==
  [visible |-> CASE action = "show" -> TRUE
                 [] action = "hide" -> FALSE
                 [] OTHER -> ~seed,
   disabled |-> CASE action = "disable" -> TRUE
                  [] action = "enable" -> FALSE
                  [] OTHER -> seed,
   required |-> CASE action = "require" -> TRUE
                  [] action = "optional" -> FALSE
                  [] OTHER -> seed]

\* C7: a dependency whose condition kind is none of the nine recognized
\* kinds is satisfied for every field value, and the true effect of its
\* action is applied.
C7_UnknownConditionSatisfied ==
  (cResult.done /\ cDependency.condition \notin Conditions) =>
    /\ cResult.met
    /\ cResult.state = TrueEffect(cDependency.action, cSeed)

C7_Witness ==
  /\ cResult.done
  /\ cDependency.condition = "matches"
  /\ cDependency.action = "hide"
  /\ cFieldValue = Undef
  /\ ~cSeed
  /\ ~cResult.state.visible

(***************************************************************************)
(* Properties of the compiled validator and the defaults                   *)
(***************************************************************************)
\* the validated field, the value under it and the verdict
ValidatedField == vFields[1]
ValidatedValue == IF "f" \in DOMAIN vValues.v THEN vValues.v["f"] ELSE Undef
Passes == vIssues = {}

RequiredIsSet(field) ==
  field.validation.required \in {Bool(TRUE), CustomMessage}

\* the empty value of a field: the empty string, and the empty sequence for
\* the multi-option checkbox and the array
IsEmptyInput(field, x) ==
  \/ x = EmptyStr
  \/ /\ x = EmptyArr
     /\ \/ field.type = "array"
        \/ field.type = "checkbox" /\ Len(field.options) > 1

\* C8: for every field type an absent value passes when validation.required
\* is unset or false, and an absent or empty value fails when it is set.
C8_RequiredRejectsAbsentAndEmpty ==
  (vPhase = "validated") =>
    /\ (~RequiredIsSet(ValidatedField) /\ ValidatedValue = Undef) => Passes
    /\ (/\ RequiredIsSet(ValidatedField)
        /\ (ValidatedValue = Undef \/ IsEmptyInput(ValidatedField, ValidatedValue)))
         => ~Passes

\* the part of C8 the validator does satisfy: absent passes when optional;
\* absent and the empty string fail for the required text-like and number
\* fields
C8_TextAndNumberOnly ==
  (vPhase = "validated") =>
    /\ (~RequiredIsSet(ValidatedField) /\ ValidatedValue = Undef) => Passes
    /\ (/\ RequiredIsSet(ValidatedField)
        /\ ValidatedField.type \in {"text", "email", "password", "textarea", "number"}
        /\ ValidatedValue \in {Undef, EmptyStr})
         => ~Passes

\* the bound and the message a min or max rule declares
BoundOf(rule) == IF rule.t = "number" THEN rule.v ELSE rule.v.value.v
BoundMessage(rule, name) ==
  IF rule.t = "number" THEN Str(<<name, ToString(rule.v)>>) ELSE rule.v.message

IssueCodes == {issue.code : issue \in vIssues}

\* C9: a required number field with bounds min and max accepts an integer v
\* exactly when min <= v <= max, reports the min message below min and the
\* max message above max, reports a missing value as required and a
\* non-numeric value as a type error only; a bound of 0 is enforced.
C9_NumberBounds ==
  (/\ vPhase = "validated"
   /\ ValidatedField.type = "number"
   /\ RequiredIsSet(ValidatedField)
   /\ ValidatedField.validation.min # Undef
   /\ ValidatedField.validation.max # Undef) =>
    LET lo == BoundOf(ValidatedField.validation.min)
        hi == BoundOf(ValidatedField.validation.max)
        x == ValidatedValue
    IN /\ x.t = "number" =>
            /\ Passes <=> (lo <= x.v /\ x.v <= hi)
            /\ (x.v < lo) <=>
                 Issue(<<"f">>, "too_small",
                       BoundMessage(ValidatedField.validation.min, "min")) \in vIssues
            /\ (x.v > hi) <=>
                 Issue(<<"f">>, "too_big",
                       BoundMessage(ValidatedField.validation.max, "max")) \in vIssues
       /\ x.t = "undefined" =>
            vIssues = {Issue(<<"f">>, "invalid_type", Str(<<"zod:Required", "0">>))}
       /\ x.t \notin {"number", "undefined"} => IssueCodes = {"invalid_type"}

C9_Witness ==
  /\ vPhase = "validated"
  /\ ValidatedField.type = "number"
  /\ ValidatedField.validation.required = Bool(TRUE)
  /\ ValidatedField.validation.min = Num(0)
  /\ ValidatedField.validation.max = Num(1)
  /\ ValidatedValue = Num(0 - 1)
  /\ IssueCodes = {"too_small"}

\* the defaults of the children of the group fields
ChildrenDefaults ==
  Obj([k |-> EmptyStr, m |-> Undef, s |-> Bool(TRUE), q |-> EmptyArr,
       i |-> Obj([j |-> EmptyArr])])

DefaultOf(field) ==
  IF field.defaultValue # Undef THEN field.defaultValue
  ELSE CASE field.type = "number" -> Undef
         [] field.type = "checkbox" /\ Len(field.options) > 1 -> EmptyArr
         [] field.type \in {"checkbox", "switch"} -> Bool(FALSE)
         [] field.type = "group" -> ChildrenDefaults
         [] field.type = "array" -> EmptyArr
         [] OTHER -> EmptyStr

\* C10: the schema-derived default of a field is its declared defaultValue
\* whenever that is not undefined (false, 0 and '' included); otherwise
\* undefined for number, the empty sequence for a checkbox with more than
\* one option and for array, false for the other checkboxes and switch, the
\* object of the children's defaults for group, the empty string otherwise.
C10_SchemaDefaults ==
  (vPhase \in {"parsed", "validated"}) =>
    /\ DOMAIN vParsed.defaultValues.v = {"f"}
    /\ vParsed.defaultValues.v["f"] = DefaultOf(ValidatedField)

C10_Witness ==
  /\ vPhase = "parsed"
  /\ ValidatedField.type = "group"
  /\ ValidatedField.defaultValue = Undef
  /\ vParsed.defaultValues.v["f"] = ChildrenDefaults
  /\ vValues.v["f"] = ChildrenDefaults

(***************************************************************************)
(* Properties of mergeDefaultValues                                        *)
(***************************************************************************)
\* the value under key k of an object, undefined when it has no such key
ValueAt(obj, k) == IF k \in DOMAIN obj.v THEN obj.v[k] ELSE Undef

\* C11: the merged defaults hold, for every top-level key, the caller's
\* value when the caller supplies the key and the schema default otherwise,
\* a nested object of the caller replacing the schema's wholesale; with
\* undefined caller defaults they are the schema defaults; {a: 1} over
\* {a: 0, b: 2} gives {a: 1, b: 2}.
C11_ShallowCallerWins ==
  (mPhase = "merged") =>
    /\ mUserDefaults = Undef => mMerged = mSchemaDefaults
    /\ mUserDefaults.t = "object" =>
         /\ DOMAIN mMerged.v = (DOMAIN mSchemaDefaults.v) \cup (DOMAIN mUserDefaults.v)
         /\ \A k \in DOMAIN mMerged.v :
              mMerged.v[k] = IF k \in DOMAIN mUserDefaults.v
                             THEN mUserDefaults.v[k]
                             ELSE mSchemaDefaults.v[k]
    /\ (/\ mSchemaDefaults = Obj([a |-> Num(0), b |-> Num(2)])
        /\ mUserDefaults = Obj([a |-> Num(1)]))
         => mMerged = Obj([a |-> Num(1), b |-> Num(2)])

C11_Witness ==
  /\ mPhase = "merged"
  /\ mUserDefaults.t = "object"
  /\ ValueAt(mSchemaDefaults, "g") = Obj([x |-> EmptyStr, y |-> Bool(FALSE)])
  /\ ValueAt(mUserDefaults, "g") = Obj([x |-> Str(<<"u">>)])
  /\ ValueAt(mSchemaDefaults, "a") = Num(0)
  /\ "a" \notin DOMAIN mUserDefaults.v
  /\ mMerged.v["g"] = Obj([x |-> Str(<<"u">>)])
  /\ mMerged.v["a"] = Num(0)

(***************************************************************************)
(* Properties of the array field                                           *)
(***************************************************************************)
ItemCount == Len(Items(aValues))

AboveMin(n) == aField.minItems = Undef \/ n >= aField.minItems.v
BelowMax(n) == aField.maxItems = Undef \/ n <= aField.maxItems.v

\* C12 as claimed: with minItems and maxItems both defined the item count
\* is within [minItems, maxItems] in every reachable state of the session,
\* the initial one included.
C12_CountAlwaysWithinBounds ==
  (aEvent # "idle" /\ aField.minItems # Undef /\ aField.maxItems # Undef) =>
    (AboveMin(ItemCount) /\ BelowMax(ItemCount))

\* C12 amended: an append adds one item and never takes the count above
\* maxItems, a remove takes one away and never takes the count below
\* minItems, so a count within the bounds stays within them under append
\* and remove; an absent bound never blocks the control of its side; a
\* reset sets the count to that of the merged defaults.
C12_GuardsKeepBounds ==
  [][/\ (aEvent' = "append") =>
          /\ Len(Items(aValues')) = ItemCount + 1
          /\ BelowMax(Len(Items(aValues')))
          /\ AboveMin(ItemCount) => AboveMin(Len(Items(aValues')))
     /\ (aEvent' = "remove") =>
          /\ Len(Items(aValues')) = ItemCount - 1
          /\ AboveMin(Len(Items(aValues')))
          /\ BelowMax(ItemCount) => BelowMax(Len(Items(aValues')))
     /\ (aEvent' = "reset") =>
          Len(Items(aValues')) = Len(Items(ArrayMergedDefaults))
     /\ (aField.maxItems = Undef /\ ~aFieldState.disabled /\ ~aReadonly) =>
          canAdd(aField, aFieldState, aReadonly, Items(aValues))
     /\ (aField.minItems = Undef /\ ~aFieldState.disabled /\ ~aReadonly) =>
          canRemove(aField, aFieldState, aReadonly, Items(aValues))
    ]_vars

C12_Witness ==
  /\ aEvent = "append"
  /\ aField.minItems = Num(1)
  /\ aField.maxItems = Num(2)
  /\ aUserDefaults = Undef
  /\ ItemCount = 2
  /\ ~canAdd(aField, aFieldState, aReadonly, Items(aValues))

(***************************************************************************)
(* Properties of the option resolver                                       *)
(***************************************************************************)
\* the parent value of the cascade: the first non-empty string or number
\* among the current values of the dependency fields
ParentValue ==
  LET found == FindNonEmpty(WatchedValues.v)
  IN IF TypeOf(found) \in {"string", "number"} THEN found ELSE Undef

\* the listMap entry optionsKey names, undefined when there is none
StoredEntry ==
  IF Truthy(oParams.optionsKey) /\ StringOf(oParams.optionsKey) \in DOMAIN oListMap.v
  THEN oListMap.v[StringOf(oParams.optionsKey)]
  ELSE Undef

\* the list a cascading map holds for a parent value
CascadeList(entry, parent) ==
  IF IsNonEmpty(parent) /\ StringOf(parent) \in DOMAIN entry.v
  THEN entry.v[StringOf(parent)].v
  ELSE <<>>

\* the list the stored entry gives for the current parent value
EntryList ==
  CASE StoredEntry.t = "array" -> StoredEntry.v
    [] StoredEntry.t = "object" -> CascadeList(StoredEntry, ParentValue)
    [] OTHER -> <<>>

\* the last step ran refresh()
Refreshed == oLast.event \in {"mount", "change", "storage"} /\ oLast.source # "none"

\* C13: with optionsKey set and a cascading map stored under it, every
\* resolution yields the list stored under the stringified parent value,
\* the empty list when the map has no such entry or the parent value is
\* empty or undefined, and issues no fetch.
C13_CascadeWithoutFallThrough ==
  (Refreshed /\ Truthy(oParams.optionsKey) /\ StoredEntry.t = "object") =>
    /\ oOptions = CascadeList(StoredEntry, ParentValue)
    /\ ~oLast.fetched

\* C14: with optionsKey cities, optionsDependsOn [province] and the map
\* {BJ: ..., SH: ...} stored, after every change of province the options
\* are exactly the list stored for province: the BJ list for BJ, the SH
\* list for SH, the empty list for ''.
C14_CitiesFollowProvince ==
  (/\ Refreshed
   /\ oParams.optionsKey = CitiesKey
   /\ oParams.dependsOn = <<"province">>
   /\ StoredEntry = Obj([BJ |-> Arr(BJList), SH |-> Arr(SHList)])) =>
    oOptions = CASE oValues.v["province"] = BJ -> BJList
                 [] oValues.v["province"] = SH -> SHList
                 [] OTHER -> <<>>

\* C15: with optionsKey naming a flat list, every resolution yields
\* exactly the stored list whatever the dependency values, issues no fetch
\* even with optionsUrl set, and isLoading is false after the first one.
C15_FlatListAsStored ==
  (Refreshed /\ Truthy(oParams.optionsKey) /\ StoredEntry.t = "array") =>
    /\ oOptions = StoredEntry.v
    /\ ~oLast.fetched
    /\ oLast.event = "mount" => ~oIsLoading

\* the part of C15 the resolver satisfies: a non-empty flat list
C15_NonEmptyFlatList ==
  (/\ Refreshed /\ Truthy(oParams.optionsKey)
   /\ StoredEntry.t = "array" /\ StoredEntry # EmptyArr) =>
    /\ oOptions = StoredEntry.v
    /\ ~oLast.fetched
    /\ oLast.event = "mount" => ~oIsLoading

\* C16: once every fetch has settled and the fetch issued last, for the
\* current dependency value, succeeded, the options are those returned for
\* the current dependency value, in whatever order the responses arrived.
C16_LatestFetchWins ==
  (oRequests = {} /\ oLast.refresh = "api" /\ oLast.latest = "ok") =>
    oOptions = RemoteList(FetchUrl(oParams, WatchedValues))

C18_LoadingWhileInFlight == oIsLoading <=> (oRequests # {})

\* C19: after a storage event for the listMap is handled with optionsKey
\* set, the options are the new stored entry for the current parent value;
\* with optionsKey not set the event runs no resolution.
C19_StorageEventReResolves ==
  (oLast.event = "storage") =>
    IF Truthy(oParams.optionsKey)
    THEN oLast.source # "none" /\ oOptions = EntryList
    ELSE oLast.source = "none"

C20_AnySuccessLeavesNoError ==
  (sLast.event = "resolved") => (sSubmitError = Undef /\ ~sIsSubmitting)

(***************************************************************************)
(* Properties of the rendered form                                         *)
(***************************************************************************)
\* the text field T of the rendered schema, its value and its derived state
RenderedField == rFields[2]
RenderedValue == ValueAt(rValues, "T")
RenderedState == getFieldState(ComputeFieldStates(rFields, rValues), "T")
RenderedIssues == {issue \in rErrors : issue.path = <<"T">>}

\* validation.custom names a function of the validators prop
CustomIsRegistered ==
  /\ rValidators # Undef
  /\ RenderedField.validation.custom # Undef
  /\ RenderedField.validation.custom.v[1] \in DOMAIN rValidators.v

\* C21: when validation.custom of a field names a function of the
\* caller's registry and that function returns a message for the field's
\* value, validating the form leaves a field-level error with that message
\* and the submit callback is not invoked.
C21_CustomValidatorBlocksSubmit ==
  (/\ rEvent.kind = "submit"
   /\ CustomIsRegistered
   /\ validateIdNumber(RenderedValue, rValues) # Bool(TRUE))
    => /\ \E issue \in RenderedIssues :
            issue.message = validateIdNumber(RenderedValue, rValues)
       /\ ~rEvent.invoked

\* C22: a re-render with a defaultValues prop of a new identity (undefined
\* included) leaves the form on mergeDefaultValues(schemaDefaults, new
\* defaults); a re-render with the same props leaves the values alone.
C22_DefaultsChangeResets ==
  [][/\ (rUserDefaults'.id # rUserDefaults.id) =>
          rValues' = mergeDefaultValues(RenderedParsed.defaultValues,
                                        rUserDefaults'.value)
     /\ (rEvent'.kind = "render") => rValues' = rValues]_vars

\* the part of C22 the effect does satisfy: new defaults that are an
\* object reset the form, the same props never do
C22_TruthyDefaultsReset ==
  [][/\ (rUserDefaults'.id # rUserDefaults.id /\ Truthy(rUserDefaults'.value)) =>
          rValues' = mergeDefaultValues(RenderedParsed.defaultValues,
                                        rUserDefaults'.value)
     /\ (rEvent'.kind = "render") => rValues' = rValues]_vars

C30_RequiredByDependencyPasses ==
  /\ rEvent.kind = "submit"
  /\ RenderedValue = EmptyStr
  /\ ~Truthy(RenderedField.validation.required)
  /\ RenderedState.required
  /\ rEvent.invoked

(***************************************************************************)
(* Properties of schema compilation                                        *)
(***************************************************************************)
\* the paths of the fields whose validation.pattern is not a regular
\* expression
RECURSIVE MalformedPaths(_, _, _)
MalformedPaths(fieldList, i, prefix) ==
  IF i > Len(fieldList) THEN {}
  ELSE LET field == fieldList[i]
           fieldPath == JoinPath(prefix, field.name)
           pattern == field.validation.pattern
       IN (IF Truthy(pattern) /\ ~RegExpValid(PatternSource(pattern))
           THEN {fieldPath} ELSE {})
          \cup MalformedPaths(field.children, 1, fieldPath)
          \cup MalformedPaths(fieldList, i + 1, prefix)

\* the error names the path
Mentions(error, path) ==
  \/ "path" \in DOMAIN error /\ error.path = path
  \/ \E i \in 1..Len(error.message) : error.message[i] = path

\* C23: once a schema with a field whose validation.pattern is malformed
\* has been compiled, the outcome is an error that names the path of such
\* a field; the schema is never accepted.
C23_CompileErrorNamesField ==
  (vPhase # "schema" /\ MalformedPaths(vFields, 1, "") # {}) =>
    /\ vPhase = "failed"
    /\ \E path \in MalformedPaths(vFields, 1, "") : Mentions(vParsed, path)

\* the part of C23 that holds: a malformed pattern of a text or email
\* field, nested or not, is never accepted
C23_MalformedStringPatternRejected ==
  (/\ vPhase # "schema"
   /\ \/ ValidatedField.type \in {"text", "email"} /\ "f" \in MalformedPaths(vFields, 1, "")
      \/ "f.k" \in MalformedPaths(vFields, 1, ""))
    => vPhase = "failed"

\* the validator compiled for the field, without its optional wrapper
FieldValidator == vParsed.zodSchema.shape["f"]
Unwrapped(z) == IF z.kind = "optional" THEN z.inner ELSE z
FieldDefault == ValueAt(vParsed.defaultValues, "f")

\* C24: for every checkbox field the validator, the default and the widget
\* use one threshold: at most one option gives a boolean validator, the
\* default false and the single checkbox; more give an array validator,
\* the default [] and the checkbox group; the default passes the validator.
C24_CheckboxConsistency ==
  (vPhase = "parsed" /\ ValidatedField.type = "checkbox") =>
    /\ IF Len(ValidatedField.options) <= 1
       THEN /\ Unwrapped(FieldValidator).kind = "boolean"
            /\ FieldDefault = Bool(FALSE)
            /\ FieldControl(ValidatedField) = "Checkbox"
       ELSE /\ Unwrapped(FieldValidator).kind = "array"
            /\ FieldDefault = EmptyArr
            /\ FieldControl(ValidatedField) = "CheckboxGroup"
    /\ SafeParse(FieldValidator, FieldDefault, <<"f">>) = {}

\* C24, amended: the validator and the widget use one threshold for every
\* checkbox field; the default uses it too, and passes the validator, when
\* the field declares no defaultValue (a declared one is used as it is).
C24_CheckboxConsistencyWithoutDeclaredDefault ==
  (vPhase = "parsed" /\ ValidatedField.type = "checkbox") =>
    /\ IF Len(ValidatedField.options) <= 1
       THEN /\ Unwrapped(FieldValidator).kind = "boolean"
            /\ FieldControl(ValidatedField) = "Checkbox"
       ELSE /\ Unwrapped(FieldValidator).kind = "array"
            /\ FieldControl(ValidatedField) = "CheckboxGroup"
    /\ IF ValidatedField.defaultValue = Undef
       THEN /\ FieldDefault = (IF Len(ValidatedField.options) <= 1
                               THEN Bool(FALSE) ELSE EmptyArr)
            /\ SafeParse(FieldValidator, FieldDefault, <<"f">>) = {}
       ELSE FieldDefault = ValidatedField.defaultValue

\* a multi-option checkbox without declared default has been compiled
C24_Witness ==
  /\ vPhase = "parsed"
  /\ ValidatedField.type = "checkbox"
  /\ Len(ValidatedField.options) > 1
  /\ ValidatedField.defaultValue = Undef
  /\ Unwrapped(FieldValidator).kind = "array"
  /\ FieldDefault = EmptyArr
  /\ FieldControl(ValidatedField) = "CheckboxGroup"

\* C27: an optional field left on its schema-derived default passes the
\* compiled validator, whatever constraints it declares.
C27_OptionalDefaultPasses ==
  (/\ vPhase = "validated"
   /\ ~Truthy(ValidatedField.validation.required)
   /\ vValues = vParsed.defaultValues)
    => Passes

\* the part of C27 that holds: the constraints that accept the empty
\* string (none, maxLength) and the number field let the default pass
C27_UnconstrainedDefaultPasses ==
  (/\ vPhase = "validated"
   /\ ~Truthy(ValidatedField.validation.required)
   /\ vValues = vParsed.defaultValues
   /\ \/ ValidatedField.type = "number"
      \/ /\ ValidatedField.type = "text"
         /\ ValidatedField.validation.minLength = Undef
         /\ ValidatedField.validation.pattern = Undef
         /\ ValidatedField.validation.email = Undef
         /\ ValidatedField.validation.url = Undef)
    => Passes

(***************************************************************************)
(* Properties of the array field's items                                   *)
(***************************************************************************)
\* `${field.name}.${index}.${childField.name}` for the i-th item
ChildName(i, child) == JoinPath(JoinPath(aField.name, IndexKey(i)), child.name)

\* getChildFieldState of the renderer: getFieldState over the states
\* useFieldDependencies computed for the schema and the current values
getChildFieldState(childName) ==
  getFieldState(ComputeFieldStates(<<aField>>, aValues), childName)

\* C25: for every child of the array field and every existing item, the
\* state obtained for arrayName.index.childName is computeFieldState of
\* the child against the current values.
C25_ArrayChildrenComputedState ==
  \A i \in 1..ItemCount : \A c \in 1..Len(aField.children) :
    getChildFieldState(ChildName(i, aField.children[c]))
      = computeFieldState(aField.children[c], aValues)

\* what the walk of processFields does store: the state of each child
\* under arrayName.childName, which no item of the array reads
C25_StateStoredWithoutIndex ==
  \A c \in 1..Len(aField.children) :
    getChildFieldState(JoinPath(aField.name, aField.children[c].name))
      = computeFieldState(aField.children[c], aValues)

\* C26: in a visible array field the add control is offered exactly when
\* the field is not effectively disabled and maxItems is undefined or above
\* the item count, the remove control of an item exactly when the field is
\* not effectively disabled and minItems is undefined or below the item
\* count; an appended item holds each child's defaultValue, or the empty
\* string for a child without one.
C26_AddRemoveGuards ==
  /\ (aFieldState.visible /\ ItemCount < ItemsCap) =>
       ((ENABLED ArrayAppend) <=>
          /\ ~aFieldState.disabled /\ ~aReadonly
          /\ (aField.maxItems = Undef \/ ItemCount < aField.maxItems.v))
  /\ (aFieldState.visible /\ ItemCount > 0) =>
       ((ENABLED (\E index \in 1..ItemCount : ArrayRemove(index))) <=>
          /\ ~aFieldState.disabled /\ ~aReadonly
          /\ (aField.minItems = Undef \/ ItemCount > aField.minItems.v))
  /\ (aEvent = "append") =>
       \A c \in 1..Len(aField.children) :
         ValueAt(Items(aValues)[ItemCount], aField.children[c].name)
           = (IF aField.children[c].defaultValue = Undef THEN EmptyStr
              ELSE aField.children[c].defaultValue)

\* an item was appended, the count reached maxItems and is above minItems:
\* add is no longer offered, remove is
C26_Witness ==
  /\ aEvent = "append"
  /\ aField.maxItems # Undef /\ aField.minItems # Undef
  /\ ItemCount = aField.maxItems.v
  /\ ItemCount > aField.minItems.v
  /\ ~(ENABLED ArrayAppend)
  /\ ENABLED (\E index \in 1..ItemCount : ArrayRemove(index))
  /\ Items(aValues)[ItemCount] = Obj([k |-> EmptyStr, r |-> Num(0)])

(***************************************************************************)
(* Properties of checkCondition                                            *)
(***************************************************************************)
\* the condition kind that is claimed to be the opposite
Complement(condition) ==
  CASE condition = "equals" -> "notEquals"
    [] condition = "notEquals" -> "equals"
    [] condition = "in" -> "notIn"
    [] condition = "notIn" -> "in"
    [] condition = "isEmpty" -> "isNotEmpty"
    [] condition = "isNotEmpty" -> "isEmpty"
    [] OTHER -> condition

\* C28: on the same field value and dependency value equals/notEquals,
\* in/notIn and isEmpty/isNotEmpty give opposite results (in false and
\* notIn true for a dependency value that is not an array); greaterThan
\* and lessThan are false unless both operands are numbers; contains is
\* false unless the field value is an array or both operands are strings.
C28_ComplementaryConditions ==
  cResult.done =>
    LET condition == cDependency.condition
        value == cDependency.value
    IN /\ (Complement(condition) # condition) =>
            cResult.met # checkCondition([cDependency EXCEPT
                                            !.condition = Complement(condition)],
                                         cFieldValue)
       /\ (condition = "in" /\ ~IsArray(value)) => ~cResult.met
       /\ (condition = "notIn" /\ ~IsArray(value)) => cResult.met
       /\ (/\ condition \in {"greaterThan", "lessThan"}
           /\ (cFieldValue.t # "number" \/ value.t # "number")) => ~cResult.met
       /\ (/\ condition = "contains"
           /\ ~IsArray(cFieldValue)
           /\ ~(TypeOf(cFieldValue) = "string" /\ TypeOf(value) = "string"))
            => ~cResult.met

\* notIn has been evaluated against a dependency value that is no array
C28_Witness ==
  /\ cResult.done
  /\ cDependency.condition = "notIn"
  /\ ~IsArray(cDependency.value)
  /\ cResult.met
  /\ ~checkCondition([cDependency EXCEPT !.condition = "in"], cFieldValue)

(***************************************************************************)
(* Properties of isSubmitting                                              *)
(***************************************************************************)
\* a submitForm call without a submit URL changes neither isSubmitting nor
\* submitError, calls no callback and throws nothing
NoUrlCallChangesNothing ==
  (sLast'.event = "noUrl") =>
    /\ sIsSubmitting' = sIsSubmitting
    /\ sSubmitError' = sSubmitError
    /\ sLast'.callback = Undef
    /\ sLast'.thrown = Undef

\* C29: isSubmitting is true whenever a submitForm call has started its
\* request and not settled, overlapping calls included; a call made when
\* there is no submit URL leaves isSubmitting and submitError unchanged
\* and invokes neither callback.
C29_SubmittingWhileInFlight ==
  /\ [](sCalls # {} => sIsSubmitting)
  /\ [][NoUrlCallChangesNothing]_vars

\* the part of C29 that holds: the call without a submit URL
C29_NoUrlCallIsInert == [][NoUrlCallChangesNothing]_vars

\* the part of C29 that holds: isSubmitting is true while a call is in
\* flight that no other call overlapped
C29_SubmittingWhileOneInFlight ==
  (\E call \in sCalls : ~call.overlapped) => sIsSubmitting

====
